---------------------------- MODULE Spec2Model ----------------------------
(***************************************************************************)
(* SnipLogic browser extension.                                            *)
(*                                                                         *)
(*   - background.ts : MV3 service worker (storage, shortcut-list cache,   *)
(*                     GET_SHORTCUTS / EXPAND_SHORTCUT / GET_STATUS)       *)
(*   - popup.ts      : login / refresh / sign-out, cache warming           *)
(*   - content.ts    : Tab handler, variable resolution, replacement       *)
(*                                                                         *)
(* Asynchronous functions are cut at their awaits: one action runs from    *)
(* one await to the next.  A chrome.storage operation takes effect in the  *)
(* step in which its callback fires.                                       *)
(***************************************************************************)
EXTENDS Integers, Sequences, FiniteSets, TLC

\* ------------------------------------------------------------------------
\* Bounds of the model
\* ------------------------------------------------------------------------
\* GET_SHORTCUTS and EXPAND_SHORTCUT messages the service worker receives in
\* a run; all of them may be in flight together
MaxHandlers == 2
\* steps of the clock
MaxTicks == 3
\* EXPAND_SHORTCUT requests the content script sends in one run
MaxRequests == 2
\* edits the user makes in one run
MaxEdits == 2

\* ------------------------------------------------------------------------
\* Program constants
\* ------------------------------------------------------------------------
CACHE_TTL_MS == 300000

\* ------------------------------------------------------------------------
\* Optional values: a key of chrome.storage.local is absent or holds a value
\* ------------------------------------------------------------------------
Absent == << >>
Some(v) == << v >>
IsPresent(o) == o /= << >>
Val(o) == o[1]

\* JavaScript truthiness of an optional number (0 and undefined are falsy)
TruthyNum(o) == IsPresent(o) /\ Val(o) /= 0

VARIABLES
    storage,    \* chrome.storage.local
    now,        \* Date.now()
    ticks,      \* clock steps taken
    handlers,   \* background.ts: the async bodies of onMessage in flight
    status,     \* background.ts: the answer to the last GET_STATUS
    popup,      \* popup.ts: the popup page and its flows
    seen401     \* history: the fetches answered 401 since the last login

bgvars == << storage, now, ticks, handlers, status, popup, seen401 >>

VARIABLES
    knownShortcuts,   \* content.ts: the Set of lookup keys
    cachedVariables,  \* content.ts: the list of static variables
    loaded,           \* content.ts: whether the callback of the initial storage read ran
    contextValid,     \* whether chrome.runtime.id is still defined in this tab
    surface,          \* the editing surface of the page and its selection
    requests,         \* content.ts: EXPAND_SHORTCUT requests whose callback is pending
    dispatched,       \* requests sent so far
    edits,            \* user edits made so far
    kd,               \* the last keydown event and what the handler did with it
    ex                \* history: what the last response callback did

cvars == << knownShortcuts, cachedVariables, loaded, contextValid, surface,
            requests, dispatched, edits, kd, ex >>

vars == << bgvars, cvars >>

Handlers == 1 .. MaxHandlers

\* ------------------------------------------------------------------------
\* The remote store, as seen by fetch()
\* ------------------------------------------------------------------------
\* bodies of GET /snippets/shortcuts: items with a shortcut or null
ServerLists == { << "/sig" >>, << "/sig", "null", "/hi" >> }
\* bodies of GET /variables
ServerVariables == { << >>, << "name" >> }
\* outcomes of a fetch: an HTTP status, or the promise rejecting
FetchOutcomes == { "200", "401", "404", "500", "throw" }
Ok(outcome) == outcome = "200"

\* ------------------------------------------------------------------------
\* background.ts : storage helpers
\* ------------------------------------------------------------------------
StorageInit ==
    [ token |-> Absent, user |-> Absent, apiUrl |-> Absent,
      shortcuts |-> Absent, shortcutsLastFetched |-> Absent,
      variables |-> Absent ]

\* setStorage({ shortcuts, shortcutsLastFetched })
setShortcuts(st, list, ts) ==
    [ st EXCEPT !.shortcuts = Some(list), !.shortcutsLastFetched = Some(ts) ]

\* clearAuth(): remove token, user, shortcuts, shortcutsLastFetched
clearAuth(st) ==
    [ st EXCEPT !.token = Absent, !.user = Absent,
                !.shortcuts = Absent, !.shortcutsLastFetched = Absent ]

\* data.map(s => s.shortcut).filter(s => s !== null)
RECURSIVE filterNonNull(_)
filterNonNull(data) ==
    IF data = << >> THEN << >>
    ELSE IF Head(data) = "null" THEN filterNonNull(Tail(data))
         ELSE << Head(data) >> \o filterNonNull(Tail(data))

\* stale with >= for >: the cache expires one millisecond early
stale_early(st, t) ==
    \/ ~IsPresent(st.shortcuts)
    \/ ~TruthyNum(st.shortcutsLastFetched)
    \/ t - Val(st.shortcutsLastFetched) >= CACHE_TTL_MS

\* getShortcuts: the staleness test on the storage read at line 64
stale(st, t) ==
    \/ ~IsPresent(st.shortcuts)
    \/ ~TruthyNum(st.shortcutsLastFetched)
    \/ t - Val(st.shortcutsLastFetched) > CACHE_TTL_MS


\* getShortcuts lines 73-75: the request is answered from the cache
servedFromCache(st, t, forceRefresh) ==
    ~forceRefresh /\ ~stale(st, t) /\ IsPresent(st.shortcuts)

\* ------------------------------------------------------------------------
\* background.ts : responses of the onMessage listener
\* ------------------------------------------------------------------------
NoResponse ==
    [ kind |-> "none", shortcuts |-> << >>, loggedIn |-> FALSE, shortcutCount |-> 0 ]
ShortcutsResponse(list) == [ NoResponse EXCEPT !.kind = "shortcuts", !.shortcuts = list ]
TypeResponse(t) == [ NoResponse EXCEPT !.kind = t ]

\* GET_STATUS, lines 149-156
StatusResponse(st) ==
    [ NoResponse EXCEPT
        !.kind = "status",
        !.loggedIn = IsPresent(st.token),
        !.shortcutCount = IF IsPresent(st.shortcuts) THEN Len(Val(st.shortcuts)) ELSE 0 ]

\* type, pc: the message and the await the handler stands at
\* now, list: the locals of getShortcuts; resp: what sendResponse was given
\* fetched, saw401, outcome, token: history of this handler (a fetch was
\* started, answered 401, how it settled, a token was found in the storage)
IdleHandler ==
    [ type |-> "none", pc |-> "idle", now |-> 0,
      list |-> << >>, fetched |-> FALSE, saw401 |-> FALSE,
      outcome |-> "", token |-> FALSE,
      resp |-> NoResponse ]

Free(h) == handlers[h].pc = "idle"

Respond(rec, r) == [ rec EXCEPT !.pc = "done", !.resp = r ]

\* onMessage, GET_STATUS: answered from the storage read at line 92
\* (the listener has no await after it: the message is answered in one step;
\* after401: a 401 of the shortcut-list fetch was handled since the last login)
ReceiveGetStatus ==
    /\ status' = [ resp |-> StatusResponse(storage), after401 |-> "bg_list" \in seen401 ]
    /\ UNCHANGED << storage, now, ticks, handlers, popup, seen401 >>
    /\ UNCHANGED cvars

\* onMessage, GET_SHORTCUTS: getShortcuts() is called and awaits getStorage()
ReceiveGetShortcuts(h) ==
    /\ Free(h)
    /\ handlers' = [ handlers EXCEPT ![h] =
          [ IdleHandler EXCEPT !.type = "GET_SHORTCUTS", !.pc = "get1" ] ]
    /\ UNCHANGED << storage, now, ticks, status, popup, seen401 >>
    /\ UNCHANGED cvars

\* onMessage, EXPAND_SHORTCUT: no token, or the single-snippet fetch starts
ReceiveExpandShortcut(h) ==
    /\ Free(h)
    /\ handlers' = [ handlers EXCEPT ![h] =
          IF ~IsPresent(storage.token)
          THEN Respond([ IdleHandler EXCEPT !.type = "EXPAND_SHORTCUT" ],
                       TypeResponse("NOT_LOGGED_IN"))
          ELSE [ IdleHandler EXCEPT !.type = "EXPAND_SHORTCUT", !.token = TRUE,
                                    !.pc = "fetchSnippet", !.fetched = TRUE ] ]
    /\ UNCHANGED << storage, now, ticks, status, popup, seen401 >>
    /\ UNCHANGED cvars

\* getShortcuts after its getStorage(): token test, staleness test, cache or fetch
getShortcuts(rec, st, t, forceRefresh) ==
    IF ~IsPresent(st.token)
    THEN Respond(rec, ShortcutsResponse(<< >>))
    ELSE IF servedFromCache(st, t, forceRefresh)
         THEN Respond([ rec EXCEPT !.now = t ], ShortcutsResponse(Val(st.shortcuts)))
         ELSE [ rec EXCEPT !.now = t, !.pc = "fetchList", !.fetched = TRUE ]

GetStorageDone(h) ==
    /\ handlers[h].pc = "get1"
    /\ handlers' = [ handlers EXCEPT ![h] =
          getShortcuts([ @ EXCEPT !.token = IsPresent(storage.token) ], storage, now, FALSE) ]
    /\ UNCHANGED << storage, now, ticks, status, popup, seen401 >>
    /\ UNCHANGED cvars

\* fetchShortcuts reading the body whatever the status is
fetchShortcuts_anyStatus(rec, outcome, data) ==
    IF outcome = "401" THEN [ rec EXCEPT !.pc = "clear", !.saw401 = TRUE ]
    ELSE [ rec EXCEPT !.pc = "set", !.list = filterNonNull(data) ]

\* fetchShortcuts returning [] for a failure, as it does after a 401
fetchShortcuts_failureAsEmpty(rec, outcome, data) ==
    IF outcome = "401" THEN [ rec EXCEPT !.pc = "clear", !.saw401 = TRUE ]
    ELSE IF ~Ok(outcome) THEN [ rec EXCEPT !.pc = "set", !.list = << >> ]
    ELSE [ rec EXCEPT !.pc = "set", !.list = filterNonNull(data) ]

\* fetchShortcuts after its fetch(): 401, other failure, or the list
fetchShortcuts(rec, outcome, data) ==
    IF outcome = "401" THEN [ rec EXCEPT !.pc = "clear", !.saw401 = TRUE ]
    ELSE IF ~Ok(outcome) THEN Respond([ rec EXCEPT !.now = 0 ], ShortcutsResponse(<< >>))
    ELSE [ rec EXCEPT !.pc = "set", !.list = filterNonNull(data) ]

FetchShortcutsDone(h) ==
    /\ handlers[h].pc = "fetchList"
    /\ \E outcome \in FetchOutcomes, data \in ServerLists :
          handlers' = [ handlers EXCEPT ![h] =
              fetchShortcuts([ @ EXCEPT !.outcome = outcome ], outcome, data) ]
    /\ UNCHANGED << storage, now, ticks, status, popup, seen401 >>
    /\ UNCHANGED cvars

\* expandResponse without its 401 branch: a 401 falls into !resp.ok
expandResponse_no401(rec, outcome) ==
    IF outcome = "401"
    THEN Respond([ rec EXCEPT !.saw401 = TRUE ], TypeResponse("NOT_FOUND"))
    ELSE IF ~Ok(outcome) THEN Respond(rec, TypeResponse("NOT_FOUND"))
    ELSE Respond(rec, TypeResponse("SNIPPET"))

\* EXPAND_SHORTCUT testing only for 401 and 404 before it reads the body
expandResponse_only404(rec, outcome) ==
    IF outcome = "401" THEN [ rec EXCEPT !.pc = "clear", !.saw401 = TRUE ]
    ELSE IF outcome = "404" THEN Respond(rec, TypeResponse("NOT_FOUND"))
    ELSE Respond(rec, TypeResponse("SNIPPET"))

\* EXPAND_SHORTCUT after its fetch(), lines 116-145
expandResponse(rec, outcome) ==
    IF outcome = "401" THEN [ rec EXCEPT !.pc = "clear", !.saw401 = TRUE ]
    ELSE IF outcome = "404" THEN Respond(rec, TypeResponse("NOT_FOUND"))
    ELSE IF ~Ok(outcome) THEN Respond(rec, TypeResponse("NOT_FOUND"))
    ELSE Respond(rec, TypeResponse("SNIPPET"))

FetchSnippetDone(h) ==
    /\ handlers[h].pc = "fetchSnippet"
    /\ \E outcome \in FetchOutcomes :
          handlers' = [ handlers EXCEPT ![h] =
              expandResponse([ @ EXCEPT !.outcome = outcome ], outcome) ]
    /\ UNCHANGED << storage, now, ticks, status, popup, seen401 >>
    /\ UNCHANGED cvars

\* the EXPAND_SHORTCUT branch returning after clearAuth() without an answer
afterClearAuth_noAnswer(rec) ==
    IF rec.type = "GET_SHORTCUTS"
    THEN [ rec EXCEPT !.pc = "set", !.list = << >> ]
    ELSE [ rec EXCEPT !.pc = "returned" ]

\* await clearAuth() returns: fetchShortcuts returns [] to getShortcuts, which
\* goes on to setStorage; the EXPAND_SHORTCUT branch answers NOT_LOGGED_IN
afterClearAuth(rec) ==
    IF rec.type = "GET_SHORTCUTS"
    THEN [ rec EXCEPT !.pc = "set", !.list = << >> ]
    ELSE Respond(rec, TypeResponse("NOT_LOGGED_IN"))

ClearAuthDone(h) ==
    /\ handlers[h].pc = "clear"
    /\ storage' = clearAuth(storage)
    /\ handlers' = [ handlers EXCEPT ![h] = afterClearAuth(@) ]
    /\ seen401' = IF handlers[h].type = "EXPAND_SHORTCUT"
                  THEN seen401 \cup { "bg_snippet" } ELSE seen401
    /\ UNCHANGED << now, ticks, status, popup >>
    /\ UNCHANGED cvars

\* await setStorage({ shortcuts, shortcutsLastFetched: now }) returns, line 79-80
SetStorageDone(h) ==
    /\ handlers[h].pc = "set"
    /\ storage' = setShortcuts(storage, handlers[h].list, handlers[h].now)
    /\ handlers' = [ handlers EXCEPT ![h] =
          Respond([ @ EXCEPT !.now = 0, !.list = << >> ], ShortcutsResponse(@.list)) ]
    /\ seen401' = IF handlers[h].saw401 THEN seen401 \cup { "bg_list" } ELSE seen401
    /\ UNCHANGED << now, ticks, status, popup >>
    /\ UNCHANGED cvars

\* ------------------------------------------------------------------------
\* popup.ts
\* ------------------------------------------------------------------------
\* clearStorage(): remove token, user, shortcuts, shortcutsLastFetched,
\* variables (and variablesLastFetched, which nothing writes)
clearStorage(st) ==
    [ st EXCEPT !.token = Absent, !.user = Absent, !.shortcuts = Absent,
                !.shortcutsLastFetched = Absent, !.variables = Absent ]

\* view: which view is shown ("closed": no popup page exists)
\* flow: the handler that started the fetches; auth, s, v: where handleLogin's
\* POST, fetchAndCacheShortcuts and fetchAndCacheVariables stand
PopupClosed ==
    [ view |-> "closed", flow |-> "none", auth |-> "idle", s |-> "idle", v |-> "idle",
      list |-> << >>, ts |-> 0, vars |-> << >> ]

\* a sequential flow (login, refresh) ends after fetchAndCacheVariables;
\* init's two fetches end independently
EndFlow(p) ==
    [ p EXCEPT !.flow = "none", !.s = "idle", !.v = "idle", !.list = << >>, !.ts = 0,
               !.vars = << >>,
               !.view = IF p.flow = "login" THEN "loggedin" ELSE p.view ]

\* init(): DOMContentLoaded, lines 243-266
PopupOpen ==
    /\ popup.view = "closed"
    /\ popup' = IF IsPresent(storage.token) /\ IsPresent(storage.user)
                THEN [ PopupClosed EXCEPT !.view = "loggedin", !.flow = "init",
                                          !.s = "fetch", !.v = "fetch" ]
                ELSE [ PopupClosed EXCEPT !.view = "login" ]
    /\ UNCHANGED << storage, now, ticks, handlers, status, seen401 >>
    /\ UNCHANGED cvars

\* the popup page is closed: its pending callbacks never run
PopupClose ==
    /\ popup.view /= "closed"
    /\ popup' = PopupClosed
    /\ UNCHANGED << storage, now, ticks, handlers, status, seen401 >>
    /\ UNCHANGED cvars

\* handleLogin up to its fetch of /auth/login (e-mail and password given)
PopupLoginClick ==
    /\ popup.view = "login" /\ popup.flow = "none" /\ popup.auth = "idle"
    /\ popup' = [ popup EXCEPT !.auth = "fetch", !.flow = "login" ]
    /\ UNCHANGED << storage, now, ticks, handlers, status, seen401 >>
    /\ UNCHANGED cvars

\* handleLogin after the POST: an error is shown, or setStorage({token, user})
PopupLoginDone ==
    /\ popup.auth = "fetch"
    /\ \E outcome \in FetchOutcomes :
          popup' = IF Ok(outcome) THEN [ popup EXCEPT !.auth = "set" ]
                   ELSE [ popup EXCEPT !.auth = "idle", !.flow = "none" ]
    /\ UNCHANGED << storage, now, ticks, handlers, status, seen401 >>
    /\ UNCHANGED cvars

\* setStorage({token, user}) returns; fetchAndCacheShortcuts starts
PopupSetAuthDone ==
    /\ popup.auth = "set"
    /\ storage' = [ storage EXCEPT !.token = Some("tok"), !.user = Some("user") ]
    /\ popup' = [ popup EXCEPT !.auth = "idle", !.s = "fetch" ]
    /\ seen401' = { }
    /\ UNCHANGED << now, ticks, handlers, status >>
    /\ UNCHANGED cvars

\* handleRefresh up to its fetch, lines 207-215
PopupRefreshClick ==
    /\ popup.view = "loggedin" /\ popup.flow = "none"
    /\ popup' = IF ~IsPresent(storage.token)
                THEN [ popup EXCEPT !.view = "login" ]
                ELSE [ popup EXCEPT !.flow = "refresh", !.s = "fetch" ]
    /\ UNCHANGED << storage, now, ticks, handlers, status, seen401 >>
    /\ UNCHANGED cvars

\* handleSignOut: clearStorage() then showLogin()
PopupSignOutClick ==
    /\ popup.view = "loggedin"
    /\ storage' = clearStorage(storage)
    /\ popup' = [ popup EXCEPT !.view = "login" ]
    /\ UNCHANGED << now, ticks, handlers, status, seen401 >>
    /\ UNCHANGED cvars

\* what follows fetchAndCacheShortcuts in the flow that called it
afterShortcuts(p) ==
    IF p.flow = "init"
    THEN (IF p.v \in { "idle", "done" } THEN EndFlow(p) ELSE [ p EXCEPT !.s = "done" ])
    ELSE [ p EXCEPT !.s = "done", !.v = "fetch" ]

\* fetchAndCacheShortcuts after its fetch(): !resp.ok returns [] and writes
\* nothing; a rejected fetch ends handleLogin / handleRefresh in their catch
fetchAndCacheShortcuts(p, outcome, data, t) ==
    IF outcome = "throw"
    THEN (IF p.flow = "init" THEN afterShortcuts(p)
          ELSE [ EndFlow(p) EXCEPT !.view = p.view ])
    ELSE IF ~Ok(outcome) THEN afterShortcuts([ p EXCEPT !.list = << >> ])
    ELSE [ p EXCEPT !.s = "set", !.list = filterNonNull(data), !.ts = t ]

PopupFetchShortcutsDone ==
    /\ popup.s = "fetch"
    /\ \E outcome \in FetchOutcomes, data \in ServerLists :
          /\ popup' = fetchAndCacheShortcuts(popup, outcome, data, now)
          /\ seen401' = IF outcome = "401" THEN seen401 \cup { "popup_list" } ELSE seen401
    /\ UNCHANGED << storage, now, ticks, handlers, status >>
    /\ UNCHANGED cvars

\* setStorage({ shortcuts, shortcutsLastFetched: Date.now() }) returns
PopupSetShortcutsDone ==
    /\ popup.s = "set"
    /\ storage' = setShortcuts(storage, popup.list, popup.ts)
    /\ popup' = afterShortcuts(popup)
    /\ UNCHANGED << now, ticks, handlers, status, seen401 >>
    /\ UNCHANGED cvars

\* what follows fetchAndCacheVariables
afterVariables(p) ==
    IF p.flow = "init" /\ p.s \in { "fetch", "set" }
    THEN [ p EXCEPT !.v = "done" ]
    ELSE EndFlow(p)

\* fetchAndCacheVariables after its fetch(): !resp.ok and a rejected fetch
\* return without writing
fetchAndCacheVariables(p, outcome, data) ==
    IF ~Ok(outcome) THEN afterVariables(p)
    ELSE [ p EXCEPT !.v = "set", !.vars = data ]

PopupFetchVariablesDone ==
    /\ popup.v = "fetch"
    /\ \E outcome \in FetchOutcomes, data \in ServerVariables :
          /\ popup' = fetchAndCacheVariables(popup, outcome, data)
          /\ seen401' = IF outcome = "401" THEN seen401 \cup { "popup_vars" } ELSE seen401
    /\ UNCHANGED << storage, now, ticks, handlers, status >>
    /\ UNCHANGED cvars

\* setStorage({ variables }) returns
PopupSetVariablesDone ==
    /\ popup.v = "set"
    /\ storage' = [ storage EXCEPT !.variables = Some(popup.vars) ]
    /\ popup' = afterVariables(popup)
    /\ UNCHANGED << now, ticks, handlers, status, seen401 >>
    /\ UNCHANGED cvars

\* ------------------------------------------------------------------------
\* The clock
\* ------------------------------------------------------------------------
\* Date.now() is read at three kinds of distance from a write of the cache:
\* the first step of the clock is one short of the freshness window, the
\* following ones are single milliseconds
Tick ==
    /\ ticks < MaxTicks
    /\ now' = now + (IF ticks = 0 THEN CACHE_TTL_MS - 1 ELSE 1)
    /\ ticks' = ticks + 1
    /\ UNCHANGED << storage, handlers, status, popup, seen401 >>
    /\ UNCHANGED cvars

\* ========================================================================
\* content.ts
\* ========================================================================
\* Text is a sequence of characters.
Lower == { "a", "b", "c", "d", "e", "f", "g", "h", "i", "j", "k", "l", "m", "n", "o", "p", "q", "r", "s", "t", "u", "v", "w", "x", "y", "z" }
Upper == { "A", "B", "C", "D", "E", "F", "G", "H", "I", "J", "K", "L", "M", "N", "O", "P", "Q", "R", "S", "T", "U", "V", "W", "X", "Y", "Z" }
Digits == { "0", "1", "2", "3", "4", "5", "6", "7", "8", "9" }

\* SHORTCUT_RE = /\/\/([a-zA-Z0-9_-]+)$/ : the class of its group
ShortcutChars == Lower \cup Upper \cup Digits \cup { "_", "-" }
\* VAR_RE = /\{\{([a-zA-Z0-9_]+)\}\}/g : the class of its group
VarChars == Lower \cup Upper \cup Digits \cup { "_" }

\* CURSOR_SENTINEL = '‸', written "^" here
CURSOR_SENTINEL == "^"
\* '<span id="sniplogic-cursor"></span>'
CursorSpan == << "<", "s", "p", "a", "n", " ", "i", "d", "=", "\"", "s", "n", "i", "p", "l", "o", "g", "i", "c", "-", "c", "u", "r", "s", "o", "r", "\"", ">", "<", "/", "s", "p", "a", "n", ">" >>
CursorId == "sniplogic-cursor"

Min(S) == CHOOSE x \in S : \A y \in S : x <= y

\* String.prototype.substring(a, b): arguments clamped to 0..length, swapped
\* when a > b; offsets count from 0
Clamp(n, len) == IF n < 0 THEN 0 ELSE IF n > len THEN len ELSE n
Substring(str, a, b) ==
    LET x == Clamp(a, Len(str))
        y == Clamp(b, Len(str))
    IN  SubSeq(str, (IF x <= y THEN x ELSE y) + 1, IF x <= y THEN y ELSE x)

\* String.prototype.indexOf for one character: offset from 0, or -1
IndexOf(str, c) ==
    LET at == { i \in 1 .. Len(str) : str[i] = c }
    IN  IF at = { } THEN -1 ELSE Min(at) - 1

\* String.prototype.includes for one character
Includes(str, c) == \E i \in 1 .. Len(str) : str[i] = c

\* whether sub occurs in str at offset i (from 1)
OccursAt(str, sub, i) ==
    /\ i >= 1 /\ i + Len(sub) - 1 <= Len(str)
    /\ \A j \in 1 .. Len(sub) : str[i + j - 1] = sub[j]

IncludesStr(str, sub) == \E i \in 1 .. Len(str) : OccursAt(str, sub, i)

Count(str, c) == Cardinality({ i \in 1 .. Len(str) : str[i] = c })

\* SHORTCUT_RE.exec(text): the leftmost offset at which "//", one or more
\* characters of the class and the end of the text follow one another
ShortcutMatchAt(text, i) ==
    /\ i + 2 <= Len(text)
    /\ text[i] = "/" /\ text[i + 1] = "/"
    /\ \A j \in i + 2 .. Len(text) : text[j] \in ShortcutChars

NoMatch == [ matched |-> FALSE, typed |-> << >>, lookup |-> << >> ]

\* extractTrailingShortcut with the lookup key left as typed ("//sig")
extractTrailingShortcut_typedKey(text) ==
    LET starts == { i \in 1 .. Len(text) : ShortcutMatchAt(text, i) }
    IN  IF starts = { } THEN NoMatch
        ELSE LET m1 == SubSeq(text, Min(starts) + 2, Len(text))
             IN  [ matched |-> TRUE, typed |-> << "/", "/" >> \o m1,
                   lookup |-> << "/", "/" >> \o m1 ]

\* extractTrailingShortcut: typed "//" + m[1], lookup "/" + m[1], or null
extractTrailingShortcut(text) ==
    LET starts == { i \in 1 .. Len(text) : ShortcutMatchAt(text, i) }
    IN  IF starts = { } THEN NoMatch
        ELSE LET m1 == SubSeq(text, Min(starts) + 2, Len(text))
             IN  [ matched |-> TRUE, typed |-> << "/", "/" >> \o m1,
                   lookup |-> << "/" >> \o m1 ]

\* escapeHtml: & < > " replaced, & first
EscapeChar(c) ==
    IF c = "&" THEN << "&", "a", "m", "p", ";" >>
    ELSE IF c = "<" THEN << "&", "l", "t", ";" >>
    ELSE IF c = ">" THEN << "&", "g", "t", ";" >>
    ELSE IF c = "\"" THEN << "&", "q", "u", "o", "t", ";" >>
    ELSE << c >>

\* no escaping at all
escapeHtml_none(str) == str

RECURSIVE escapeHtml(_)
escapeHtml(str) ==
    IF str = << >> THEN << >> ELSE EscapeChar(Head(str)) \o escapeHtml(Tail(str))

\* resolveDynamicVars: the ten names; what Intl.DateTimeFormat renders is one
\* opaque piece of text per name
DynamicNames ==
    { << "d", "a", "t", "e", "l", "o", "n", "g" >>,
      << "d", "a", "t", "e", "s", "h", "o", "r", "t" >>,
      << "d", "a", "t", "e", "i", "s", "o" >>,
      << "d", "a", "t", "e", "m", "e", "d", "i", "u", "m" >>,
      << "t", "i", "m", "e" >>,
      << "t", "i", "m", "e", "2", "4" >>,
      << "d", "a", "t", "e", "t", "i", "m", "e" >>,
      << "d", "a", "y", "o", "f", "w", "e", "e", "k" >>,
      << "m", "o", "n", "t", "h" >>,
      << "y", "e", "a", "r" >> }

DynamicValue(name) == << "<now>" >>

\* cachedVariables entries
Variable(n, v, sc) == [ name |-> n, value |-> v, scope |-> sc ]

\* the value Map.set left for a name among the entries of one scope: the last
ScopedValue(list, name, sc) ==
    LET at == { i \in 1 .. Len(list) : list[i].scope = sc /\ list[i].name = name }
    IN  IF at = { } THEN Absent
        ELSE Some(list[CHOOSE i \in at : \A j \in at : j <= i].value)

\* a map in which the last entry of a name wins, whatever its scope
varMap_lastWins(list, name) ==
    LET at == { i \in 1 .. Len(list) : list[i].name = name }
    IN  IF name \in DynamicNames THEN Some(DynamicValue(name))
        ELSE IF at = { } THEN Absent
        ELSE Some(list[CHOOSE i \in at : \A j \in at : j <= i].value)

\* varMap of applyStaticAndDynamic, lines 118-137: workspace entries, then
\* user entries over them, then the dynamic values over both
varMap(list, name) ==
    IF name \in DynamicNames THEN Some(DynamicValue(name))
    ELSE IF IsPresent(ScopedValue(list, name, "USER")) THEN ScopedValue(list, name, "USER")
    ELSE ScopedValue(list, name, "WORKSPACE")

\* the run of characters of the class of VAR_RE's group that starts at i
VarRun(text, i) ==
    LET ends == { j \in i .. Len(text) + 1 :
                    j = Len(text) + 1 \/ text[j] \notin VarChars }
    IN  Min(ends) - i

\* VAR_RE matches at i: "{{", a non-empty run, "}}"
VarMatchAt(text, i) ==
    /\ OccursAt(text, << "{", "{" >>, i)
    /\ VarRun(text, i + 2) >= 1
    /\ OccursAt(text, << "}", "}" >>, i + 2 + VarRun(text, i + 2))

\* a replacer that drops the tokens it does not know
Replacement_dropUnknown(match, token, isHtml, clipboardText, list) ==
    IF token = << "c", "u", "r", "s", "o", "r" >>
    THEN (IF isHtml THEN CursorSpan ELSE << CURSOR_SENTINEL >>)
    ELSE IF token = << "c", "l", "i", "p", "b", "o", "a", "r", "d" >>
    THEN (IF isHtml THEN escapeHtml(clipboardText) ELSE clipboardText)
    ELSE IF IsPresent(varMap(list, token))
    THEN (IF isHtml THEN escapeHtml(Val(varMap(list, token))) ELSE Val(varMap(list, token)))
    ELSE << >>

\* the replacer of line 139-156 for one match
Replacement(match, token, isHtml, clipboardText, list) ==
    IF token = << "c", "u", "r", "s", "o", "r" >>
    THEN (IF isHtml THEN CursorSpan ELSE << CURSOR_SENTINEL >>)
    ELSE IF token = << "c", "l", "i", "p", "b", "o", "a", "r", "d" >>
    THEN (IF isHtml THEN escapeHtml(clipboardText) ELSE clipboardText)
    ELSE IF IsPresent(varMap(list, token))
    THEN (IF isHtml THEN escapeHtml(Val(varMap(list, token))) ELSE Val(varMap(list, token)))
    ELSE match

\* text.replace(VAR_RE, ...) from offset i on: matches are replaced left to
\* right, what lies between them is kept
RECURSIVE replaceFrom(_, _, _, _, _)
replaceFrom(text, i, isHtml, clipboardText, list) ==
    IF i > Len(text) THEN << >>
    ELSE IF VarMatchAt(text, i)
    THEN LET k == VarRun(text, i + 2)
         IN  Replacement(SubSeq(text, i, i + k + 3), SubSeq(text, i + 2, i + k + 1),
                         isHtml, clipboardText, list)
             \o replaceFrom(text, i + k + 4, isHtml, clipboardText, list)
    ELSE << text[i] >> \o replaceFrom(text, i + 1, isHtml, clipboardText, list)

applyStaticAndDynamic(text, isHtml, clipboardText, list) ==
    replaceFrom(text, 1, isHtml, clipboardText, list)

\* the number of {{cursor}} tokens VAR_RE finds in a text
RECURSIVE CursorTokens(_, _)
CursorTokens(text, i) ==
    IF i > Len(text) THEN 0
    ELSE IF VarMatchAt(text, i)
    THEN (IF SubSeq(text, i + 2, i + VarRun(text, i + 2) + 1) = << "c", "u", "r", "s", "o", "r" >> THEN 1 ELSE 0)
         + CursorTokens(text, i + VarRun(text, i + 2) + 4)
    ELSE CursorTokens(text, i + 1)

\* ------------------------------------------------------------------------
\* content.ts : the page
\* ------------------------------------------------------------------------
\* The page holds one editing surface: an <input>/<textarea>, or a
\* contenteditable root whose content is the run of its text nodes and
\* elements in document order.
Text(str) == [ t |-> "text", s |-> str, id |-> "" ]
Elem(id) == [ t |-> "elem", s |-> << >>, id |-> id ]
TextNode(str) == IF str = << >> THEN << >> ELSE << Text(str) >>

\* the start of the selection's range: in text node k (node = k, off counts
\* characters) or in the root (node = 0, off counts children)
Caret(k, o) == Some([ node |-> k, off |-> o ])

\* pos is selectionStart: null for the input types that have no selection
Input(v, pos) ==
    [ kind |-> "input", value |-> v, pos |-> pos, nodes |-> << >>, sel |-> Absent ]
Editable(ns, sel) ==
    [ kind |-> "editable", value |-> << >>, pos |-> Absent, nodes |-> ns, sel |-> sel ]

Truthy(o) == IsPresent(o) /\ Val(o) # << >>

getTextBeforeCursorInInput(el) ==
    Substring(el.value, 0, IF IsPresent(el.pos) THEN Val(el.pos) ELSE Len(el.value))

\* Range.toString over a run of nodes
RECURSIVE TextOf(_)
TextOf(ns) == IF ns = << >> THEN << >> ELSE Head(ns).s \o TextOf(Tail(ns))

getTextBeforeCursorInEditable(ed) ==
    IF ~IsPresent(ed.sel) THEN << >>
    ELSE IF Val(ed.sel).node = 0 THEN TextOf(SubSeq(ed.nodes, 1, Val(ed.sel).off))
    ELSE Substring(ed.nodes[Val(ed.sel).node].s, 0, Val(ed.sel).off)

\* HTMLInputElement.setSelectionRange(start, end): the arguments are unsigned
\* long, so a negative start wraps to 2^32 + start, beyond every length;
\* arguments beyond the length point at the end; end <= start collapses the
\* selection at end
setSelectionRange(len, start, end) ==
    LET a == IF start < 0 THEN len ELSE Clamp(start, len)
        b == Clamp(end, len)
    IN  IF b <= a THEN [ start |-> b, end |-> b ] ELSE [ start |-> a, end |-> b ]

RemoveAt(str, idx) == Substring(str, 0, idx) \o Substring(str, idx + 1, Len(str))

\* replaceInInput; supported: whether document.execCommand performs its
\* command on this element
replaceInInput(el, shortcut, content, supported) ==
    LET hasCursor == Includes(content, CURSOR_SENTINEL)
        cursorPos == IF IsPresent(el.pos) THEN Val(el.pos) ELSE Len(el.value)
        textBefore == Substring(el.value, 0, cursorPos)
        shortcutStart == Len(textBefore) - Len(shortcut)
        range == setSelectionRange(Len(el.value), shortcutStart, cursorPos)
        value1 ==
            IF supported
            THEN Substring(el.value, 0, range.start) \o content
                 \o Substring(el.value, range.end, Len(el.value))
            ELSE Substring(el.value, 0, shortcutStart) \o content
                 \o Substring(el.value, cursorPos, Len(el.value))
        pos1 == IF supported THEN range.start + Len(content) ELSE Len(value1)
        sentinelIdx == IndexOf(value1, CURSOR_SENTINEL)
        \* the text the insertion took the place of
        removed ==
            IF supported THEN Substring(el.value, range.start, range.end)
            ELSE Substring(el.value, IF shortcutStart < 0 THEN 0 ELSE shortcutStart,
                           cursorPos)
    IN  IF ~IsPresent(el.pos)
        THEN \* setSelectionRange throws InvalidStateError
             [ threw |-> TRUE, el |-> el, searched |-> FALSE,
               start |-> shortcutStart, removed |-> << >> ]
        ELSE IF hasCursor /\ sentinelIdx # -1
        THEN [ threw |-> FALSE, searched |-> TRUE,
               start |-> shortcutStart, removed |-> removed,
               el |-> Input(IF supported THEN RemoveAt(value1, sentinelIdx) ELSE value1,
                            Some(sentinelIdx)) ]
        ELSE [ threw |-> FALSE, searched |-> hasCursor,
               start |-> shortcutStart, removed |-> removed,
               el |-> Input(value1, Some(pos1)) ]

\* what execCommand('insertHTML') makes of a string: the marker span and
\* every other start tag become an element, an end tag closes the text run,
\* everything else is character data
RECURSIVE parseHtml(_, _, _)
parseHtml(html, i, run) ==
    IF i > Len(html) THEN TextNode(run)
    ELSE IF OccursAt(html, CursorSpan, i)
    THEN TextNode(run) \o << Elem(CursorId) >> \o parseHtml(html, i + Len(CursorSpan), << >>)
    ELSE IF html[i] = "<" /\ \E j \in i .. Len(html) : html[j] = ">"
    THEN LET j == Min({ k \in i .. Len(html) : html[k] = ">" })
         IN  TextNode(run)
             \o (IF html[i + 1] = "/" THEN << >> ELSE << Elem("") >>)
             \o parseHtml(html, j + 1, << >>)
    ELSE parseHtml(html, i + 1, Append(run, html[i]))

RemoveNode(ns, i) == SubSeq(ns, 1, i - 1) \o SubSeq(ns, i + 1, Len(ns))

\* the number of marker spans in a resolved HTML string
MarkerSpans(html) == Cardinality({ i \in 1 .. Len(html) : OccursAt(html, CursorSpan, i) })

\* placeCursorAfterSentinel: the first text node holding the sentinel loses
\* its first sentinel and receives the caret
placeCursorAfterSentinel(ed) ==
    LET hits == { i \in 1 .. Len(ed.nodes) :
                    ed.nodes[i].t = "text" /\ Includes(ed.nodes[i].s, CURSOR_SENTINEL) }
    IN  IF hits = { } THEN [ ed |-> ed, walked |-> FALSE, detached |-> FALSE ]
        ELSE LET i == Min(hits)
                 idx == IndexOf(ed.nodes[i].s, CURSOR_SENTINEL)
             IN  [ ed |-> Editable([ ed.nodes EXCEPT ![i] = Text(RemoveAt(ed.nodes[i].s, idx)) ],
                                   Caret(i, idx)),
                   walked |-> TRUE, detached |-> FALSE ]

\* replaceInEditable, lines 226-238: insertHTML over the selected span, then
\* the first element of the document with the marker id is detached
replaceHtml(ed, node, shortcutStart, offset, htmlContent, supported) ==
    LET str == ed.nodes[node].s
        before == TextNode(Substring(str, 0, shortcutStart))
        after == TextNode(Substring(str, offset, Len(str)))
        parsed == parseHtml(htmlContent, 1, << >>)
        nodes1 ==
            IF supported
            THEN SubSeq(ed.nodes, 1, node - 1) \o before \o parsed \o after
                 \o SubSeq(ed.nodes, node + 1, Len(ed.nodes))
            ELSE ed.nodes
        sel1 ==
            IF supported THEN Caret(0, (node - 1) + Len(before) + Len(parsed))
            ELSE Caret(node, shortcutStart)
        spans == { i \in 1 .. Len(nodes1) : nodes1[i].t = "elem" /\ nodes1[i].id = CursorId }
    IN  IF spans = { }
        THEN [ ed |-> Editable(nodes1, sel1), walked |-> FALSE, detached |-> FALSE ]
        ELSE [ ed |-> Editable(RemoveNode(nodes1, Min(spans)), Caret(0, Min(spans) - 1)),
               walked |-> FALSE, detached |-> TRUE ]

\* replaceInEditable, lines 240-250: insertText over the selected span, then
\* the tree walk when the resolved content holds the sentinel
replacePlain(ed, node, shortcutStart, offset, content, supported) ==
    LET str == ed.nodes[node].s
        hasCursor == Includes(content, CURSOR_SENTINEL)
        str1 ==
            IF supported
            THEN Substring(str, 0, shortcutStart) \o content \o Substring(str, offset, Len(str))
            ELSE str
        ed1 == Editable([ ed.nodes EXCEPT ![node] = Text(str1) ],
                        Caret(node, shortcutStart + (IF supported THEN Len(content) ELSE 0)))
    IN  IF hasCursor THEN placeCursorAfterSentinel(ed1)
        ELSE [ ed |-> ed1, walked |-> FALSE, detached |-> FALSE ]

\* line 217 with the comparison dropped
spanUnavailable_never(shortcutStart) == FALSE

\* line 217: if (shortcutStart < 0) return
spanUnavailable(shortcutStart) == shortcutStart < 0

\* replaceInEditable with sel.removeAllRanges() moved before its tests
replaceInEditable_rangesRemovedFirst(ed, shortcut, content, htmlContent, supported) ==
    LET Cleared == [ ed |-> Editable(ed.nodes, Absent), walked |-> FALSE, detached |-> FALSE ]
        node == Val(ed.sel).node
        offset == Val(ed.sel).off
        textBefore == Substring(ed.nodes[node].s, 0, offset)
        shortcutStart == Len(textBefore) - Len(shortcut)
    IN  IF ~IsPresent(ed.sel) THEN Cleared
        ELSE IF node = 0 \/ ed.nodes[node].t # "text" THEN Cleared
        ELSE IF spanUnavailable(shortcutStart) THEN Cleared
        ELSE IF Truthy(htmlContent)
        THEN replaceHtml(ed, node, shortcutStart, offset, Val(htmlContent), supported)
        ELSE replacePlain(ed, node, shortcutStart, offset, content, supported)

replaceInEditable(ed, shortcut, content, htmlContent, supported) ==
    LET Same == [ ed |-> ed, walked |-> FALSE, detached |-> FALSE ]
        node == Val(ed.sel).node
        offset == Val(ed.sel).off
        textBefore == Substring(ed.nodes[node].s, 0, offset)
        shortcutStart == Len(textBefore) - Len(shortcut)
    IN  IF ~IsPresent(ed.sel) THEN Same
        ELSE IF node = 0 \/ ed.nodes[node].t # "text" THEN Same
        ELSE IF spanUnavailable(shortcutStart) THEN Same
        ELSE IF Truthy(htmlContent)
        THEN replaceHtml(ed, node, shortcutStart, offset, Val(htmlContent), supported)
        ELSE replacePlain(ed, node, shortcutStart, offset, content, supported)

\* ------------------------------------------------------------------------
\* content.ts : records of the last handler run
\* ------------------------------------------------------------------------
\* kd describes the keydown event whose listener has just returned, ex the
\* response callback that has just returned; both are blank after any other
\* step
NoEvent ==
    [ key |-> "", target |-> "", keys |-> { }, inCache |-> FALSE, notInCache |-> FALSE,
      valid |-> TRUE, defaultPrevented |-> FALSE, propagationStopped |-> FALSE,
      sent |-> FALSE, shortcut |-> << >> ]

NoExpansion ==
    [ outcome |-> "none", path |-> "", suppressed |-> FALSE, span |-> FALSE, changed |-> FALSE,
      tokens |-> 0, htmlTokens |-> 0, markers |-> 0, left |-> 0, caret |-> 0, expected |-> 0,
      searched |-> FALSE, walked |-> FALSE, detached |-> FALSE, supported |-> TRUE,
      response |-> [ lastError |-> FALSE, defined |-> FALSE, type |-> "",
                     content |-> << >>, htmlContent |-> << >> ],
      read |-> FALSE, readFailed |-> FALSE, clipboardText |-> << >>, resolved |-> FALSE,
      resolvedContent |-> << >>, resolvedHtml |-> << >>,
      threw |-> FALSE, escaped |-> FALSE,
      typed |-> << >>, start |-> 0, removed |-> << >> ]

\* ------------------------------------------------------------------------
\* content.ts : the caches
\* ------------------------------------------------------------------------
\* the characters of a stored shortcut
Chars(str) ==
    CASE str = "/sig" -> << "/", "s", "i", "g" >>
      [] str = "/hi" -> << "/", "h", "i" >>
      [] OTHER -> << str >>

\* the object a stored variable stands for
VariableRecord(id) ==
    CASE id = "team" -> Variable(<< "t", "e", "a", "m" >>, << "Q", "A" >>, "WORKSPACE")
      [] id = "name/ws" -> Variable(<< "n", "a", "m", "e" >>, << "A", "l", "l" >>, "WORKSPACE")
      [] id = "year" -> Variable(<< "y", "e", "a", "r" >>, << "M", "M", "X" >>, "USER")
      [] id = "amp" ->
           Variable(<< "a", "m", "p" >>, << "R", "&", "D", "<", "\"", ">" >>, "WORKSPACE")
      [] OTHER -> Variable(<< "n", "a", "m", "e" >>, << "J", "o" >>, "USER")

\* knownShortcuts.has(lookup)
has(set, lookup) == \E str \in set : Chars(str) = lookup

Range(list) == { list[i] : i \in 1 .. Len(list) }
\* the objects a stored list of variables stands for
VariableRecords(list) == [ i \in 1 .. Len(list) |-> VariableRecord(list[i]) ]

\* lists chrome.storage.local holds under 'shortcuts' and 'variables'
StoredShortcuts == { << >>, << "/sig" >>, << "/hi", "/bye" >> }
StoredVariables == { << "name" >>, << "team" >> }

\* the cache keeps what it has and adds the new list to it
newKnownShortcuts_merged(old, newValue) ==
    IF IsPresent(newValue) THEN old \cup Range(Val(newValue)) ELSE old

\* lines 373 and 389: knownShortcuts = new Set(list), when a list is there
newKnownShortcuts(old, newValue) ==
    IF IsPresent(newValue) THEN Range(Val(newValue)) ELSE old

\* lines 376 and 392: cachedVariables = list, when a list is there
newCachedVariables(old, newValue) ==
    IF IsPresent(newValue) THEN VariableRecords(Val(newValue)) ELSE old

\* the callback of chrome.storage.local.get(['shortcuts', 'variables'])
InitStorageGet ==
    /\ ~loaded
    /\ loaded' = TRUE
    /\ knownShortcuts' = newKnownShortcuts(knownShortcuts, storage.shortcuts)
    /\ cachedVariables' = newCachedVariables(cachedVariables, storage.variables)
    /\ UNCHANGED << bgvars, contextValid, surface, requests, dispatched, edits >>
    /\ kd' = NoEvent /\ ex' = NoExpansion

\* a write or a removal of 'shortcuts' by another page of the extension,
\* and the storage.onChanged listener: newValue is undefined after a removal
ShortcutsChanged(newValue) ==
    /\ newValue # storage.shortcuts
    /\ storage' = [ storage EXCEPT !.shortcuts = newValue ]
    /\ knownShortcuts' = newKnownShortcuts(knownShortcuts, newValue)
    /\ UNCHANGED << now, ticks, handlers, status, popup, seen401 >>
    /\ UNCHANGED << cachedVariables, loaded, contextValid, surface, requests, dispatched,
                    edits >>
    /\ kd' = NoEvent /\ ex' = NoExpansion

\* the same for 'variables'
VariablesChanged(newValue) ==
    /\ newValue # storage.variables
    /\ storage' = [ storage EXCEPT !.variables = newValue ]
    /\ cachedVariables' = newCachedVariables(cachedVariables, newValue)
    /\ UNCHANGED << now, ticks, handlers, status, popup, seen401 >>
    /\ UNCHANGED << knownShortcuts, loaded, contextValid, surface, requests, dispatched,
                    edits >>
    /\ kd' = NoEvent /\ ex' = NoExpansion

\* the extension is reloaded or updated: chrome.runtime.id is gone for good
ExtensionReloaded ==
    /\ contextValid
    /\ contextValid' = FALSE
    /\ UNCHANGED << bgvars, knownShortcuts, cachedVariables, loaded, surface, requests,
                    dispatched, edits >>
    /\ kd' = NoEvent /\ ex' = NoExpansion

\* a guard that takes every context for valid
isContextValid_always == TRUE

isContextValid == contextValid

\* ------------------------------------------------------------------------
\* content.ts : the user
\* ------------------------------------------------------------------------
\* what the user types in one go
Typed == { << "/", "/", "s", "i", "g" >> }
\* where the user moves the caret: three characters back, behind the last
\* child of the surface, or out of the surface
Moves == { "left", "end", "away" }

Max(a, b) == IF a >= b THEN a ELSE b

Splice(str, at, new) == Substring(str, 0, at) \o new \o Substring(str, at, Len(str))

TypeInto(sf, new) ==
    IF sf.kind = "input"
    THEN (IF IsPresent(sf.pos)
          THEN Input(Splice(sf.value, Val(sf.pos), new), Some(Val(sf.pos) + Len(new)))
          ELSE Input(sf.value \o new, Absent))
    ELSE LET k == Val(sf.sel).node
             o == Val(sf.sel).off
         IN  IF k # 0
             THEN Editable([ sf.nodes EXCEPT ![k] = Text(Splice(sf.nodes[k].s, o, new)) ],
                           Caret(k, o + Len(new)))
             ELSE IF o >= 1 /\ sf.nodes[o].t = "text"
             THEN Editable([ sf.nodes EXCEPT ![o] = Text(sf.nodes[o].s \o new) ],
                           Caret(o, Len(sf.nodes[o].s) + Len(new)))
             ELSE Editable(SubSeq(sf.nodes, 1, o) \o << Text(new) >>
                           \o SubSeq(sf.nodes, o + 1, Len(sf.nodes)),
                           Caret(o + 1, Len(new)))

MoveIn(sf, to) ==
    IF sf.kind = "input"
    THEN (IF ~IsPresent(sf.pos) \/ to = "away" THEN sf
          ELSE IF to = "left" THEN Input(sf.value, Some(Max(0, Val(sf.pos) - 3)))
          ELSE Input(sf.value, Some(Len(sf.value))))
    ELSE IF to = "away" THEN Editable(sf.nodes, Absent)
    ELSE IF to = "end" THEN Editable(sf.nodes, Caret(0, Len(sf.nodes)))
    ELSE IF ~IsPresent(sf.sel) THEN sf
    ELSE IF Val(sf.sel).node # 0
    THEN Editable(sf.nodes, Caret(Val(sf.sel).node, Max(0, Val(sf.sel).off - 3)))
    ELSE Editable(sf.nodes, Caret(0, Max(0, Val(sf.sel).off - 1)))

UserType(new) ==
    /\ edits < MaxEdits
    /\ surface.kind = "editable" => IsPresent(surface.sel)
    /\ surface' = TypeInto(surface, new)
    /\ edits' = edits + 1
    /\ UNCHANGED << bgvars, knownShortcuts, cachedVariables, loaded, contextValid,
                    requests, dispatched >>
    /\ kd' = NoEvent /\ ex' = NoExpansion

UserMoveCaret(to) ==
    /\ edits < MaxEdits
    /\ MoveIn(surface, to) # surface
    /\ surface' = MoveIn(surface, to)
    /\ edits' = edits + 1
    /\ UNCHANGED << bgvars, knownShortcuts, cachedVariables, loaded, contextValid,
                    requests, dispatched >>
    /\ kd' = NoEvent /\ ex' = NoExpansion

\* ------------------------------------------------------------------------
\* content.ts : the Tab handler
\* ------------------------------------------------------------------------
Keys == { "Tab", "Enter" }
\* e.target: the editing surface, or an element that is neither
Targets == { "surface", "body" }
\* keydown events: Tab in the surface, Tab elsewhere, another key in the surface
Events == { << "Tab", "surface" >>, << "Tab", "body" >>, << "Enter", "surface" >> }

EndsWith(str, suffix) ==
    /\ Len(str) >= Len(suffix)
    /\ SubSeq(str, Len(str) - Len(suffix) + 1, Len(str)) = suffix

IsToken(T) == T # << >> /\ \A i \in 1 .. Len(T) : T[i] \in ShortcutChars

Suffixes(str) == { SubSeq(str, i, Len(str)) : i \in 1 .. Len(str) }

\* the keys /T of the tokens T such that S ends with //T
TriggerKeys(S) ==
    { << "/" >> \o T : T \in { U \in Suffixes(S) :
                                  IsToken(U) /\ EndsWith(S, << "/", "/" >> \o U) } }

\* S ends with //T for a token T whose key /T is in the cache
TriggerInCache(S, cache) ==
    \E k \in TriggerKeys(S) : \E str \in cache : Chars(str) = k

\* S ends with //T for a token T whose key /T is not in the cache
TriggerNotInCache(S, cache) ==
    \E k \in TriggerKeys(S) : ~ \E str \in cache : Chars(str) = k

\* what the callback closes over; suppressed: preventDefault was called on
\* the keydown that sent the request
Request(match, prevented) ==
    [ typed |-> match.typed, lookup |-> match.lookup, suppressed |-> prevented, pc |-> "sent",
      content |-> << >>, htmlContent |-> Absent ]

textBeforeCursor(sf) ==
    IF sf.kind = "input" THEN getTextBeforeCursorInInput(sf)
    ELSE getTextBeforeCursorInEditable(sf)

\* the keydown listener, lines 294-363, up to the return of sendMessage
Keydown(key, target) ==
    LET text == textBeforeCursor(surface)
        match == extractTrailingShortcut(text)
        go == /\ key = "Tab" /\ target = "surface"
              /\ match.matched /\ has(knownShortcuts, match.lookup)
              /\ isContextValid
    IN  /\ go => dispatched < MaxRequests
        /\ kd' = [ key |-> key, target |-> target,
                   keys |-> IF target = "surface" THEN TriggerKeys(text) ELSE { },
                   inCache |-> target = "surface" /\ TriggerInCache(text, knownShortcuts),
                   notInCache |-> target = "surface" /\ TriggerNotInCache(text, knownShortcuts),
                   valid |-> contextValid,
                   defaultPrevented |-> go, propagationStopped |-> go, sent |-> go,
                   shortcut |-> IF go THEN match.lookup ELSE << >> ]
        /\ requests' = IF go THEN Append(requests, Request(match, go)) ELSE requests
        /\ dispatched' = IF go THEN dispatched + 1 ELSE dispatched
        /\ UNCHANGED << bgvars, knownShortcuts, cachedVariables, loaded, contextValid,
                        surface, edits >>
        /\ ex' = NoExpansion

\* ------------------------------------------------------------------------
\* content.ts : the response callback
\* ------------------------------------------------------------------------
Response(t, c, h) ==
    [ lastError |-> FALSE, defined |-> TRUE, type |-> t, content |-> c, htmlContent |-> h ]

\* bodies the server holds for a shortcut
Snippets ==
    { [ content |-> << "B", "e", "s", "t", ",", " ", "{", "{", "c", "u", "r", "s", "o", "r", "}", "}", "J", "a", "n", "e" >>, htmlContent |-> Absent ],
      [ content |-> << "{", "{", "c", "u", "r", "s", "o", "r", "}", "}", "a", "{", "{", "c", "u", "r", "s", "o", "r", "}", "}" >>, htmlContent |-> Some(<< "{", "{", "c", "u", "r", "s", "o", "r", "}", "}", "b", "{", "{", "c", "u", "r", "s", "o", "r", "}", "}" >>) ],
      [ content |-> << "h", "i" >>, htmlContent |-> Some(<< "<", "b", ">", "h", "i", "<", "/", "b", ">" >>) ],
      [ content |-> << "{", "{", "c", "l", "i", "p", "b", "o", "a", "r", "d", "}", "}" >>, htmlContent |-> Absent ],
      [ content |-> << >>, htmlContent |-> Absent ] }

\* what the callback of sendMessage is called with
Responses ==
    { [ Response("", << >>, Absent) EXCEPT !.lastError = TRUE ],
      [ Response("", << >>, Absent) EXCEPT !.defined = FALSE ],
      Response("NOT_FOUND", << >>, Absent),
      Response("NOT_LOGGED_IN", << >>, Absent) }
    \cup { Response("SNIPPET", sn.content, sn.htmlContent) : sn \in Snippets }

\* how navigator.clipboard.readText() settles: rejected, or a text
ClipboardOutcomes == { Absent, Some(<< "a", "<", "&", "\"", ">" >>) }

\* a test that finds the token everywhere
needsClipboard_always(content, htmlContent) == TRUE

\* the early returns without the test of the content
Rejected_contentUnchecked(resp) ==
    resp.lastError \/ ~resp.defined \/ resp.type # "SNIPPET"

\* lines 329-332
Rejected(resp) ==
    resp.lastError \/ ~resp.defined \/ resp.type # "SNIPPET" \/ resp.content = << >>

\* line 336
needsClipboard(content, htmlContent) ==
    \/ IncludesStr(content, << "{", "{", "c", "l", "i", "p", "b", "o", "a", "r", "d", "}", "}" >>)
    \/ Truthy(htmlContent) /\ IncludesStr(Val(htmlContent), << "{", "{", "c", "l", "i", "p", "b", "o", "a", "r", "d", "}", "}" >>)

\* lines 345-348
resolvedContent(content, clipboardText) ==
    applyStaticAndDynamic(content, FALSE, clipboardText, cachedVariables)
resolvedHtml(htmlContent, clipboardText) ==
    IF Truthy(htmlContent)
    THEN Some(applyStaticAndDynamic(Val(htmlContent), TRUE, clipboardText, cachedVariables))
    ELSE Absent

\* lines 351-355
Replace(sf, typed, content, htmlContent, supported) ==
    IF sf.kind = "input"
    THEN LET r == replaceInInput(sf, typed, content, supported)
         IN  [ sf |-> r.el, searched |-> r.searched, walked |-> FALSE, detached |-> FALSE,
               threw |-> r.threw, start |-> r.start, removed |-> r.removed ]
    ELSE LET r == replaceInEditable(sf, typed, content, htmlContent, supported)
         IN  [ sf |-> r.ed, searched |-> FALSE, walked |-> r.walked, detached |-> r.detached,
               threw |-> FALSE, start |-> 0, removed |-> << >> ]

\* a callback without its try/catch: what is thrown inside leaves it
escapes_noCatch(threw) == threw

\* the try/catch around the body of the callback, lines 328 and 356: what is
\* thrown inside is swallowed
escapes(threw) == FALSE

\* the caret is in a text node with the whole typed trigger before it
CaretInTextNode(ed) ==
    /\ IsPresent(ed.sel) /\ Val(ed.sel).node # 0
    /\ ed.nodes[Val(ed.sel).node].t = "text"
SpanAvailable(sf, typed) ==
    IF sf.kind = "input" THEN IsPresent(sf.pos) /\ Val(sf.pos) >= Len(typed)
    ELSE CaretInTextNode(sf) /\ Val(sf.sel).off >= Len(typed)
\* the replacement cannot be made: no caret in a text node of the editable,
\* or too little text before it, or an input without a selection
Impossible(sf, typed) ==
    IF sf.kind = "input" THEN ~IsPresent(sf.pos) ELSE ~SpanAvailable(sf, typed)

RECURSIVE MarkersInNodes(_)
MarkersInNodes(ns) ==
    IF ns = << >> THEN 0
    ELSE (IF Head(ns).t = "elem" /\ Head(ns).id = CursorId THEN 1 ELSE 0)
         + Count(Head(ns).s, CURSOR_SENTINEL) + MarkersInNodes(Tail(ns))
\* sentinel characters and marker elements in a surface
MarkersIn(sf) == Count(sf.value, CURSOR_SENTINEL) + MarkersInNodes(sf.nodes)

\* what one run of lines 345-355 did, for the record; read: the clipboard was
\* read before, outcome: how the read settled
Expansion(sf, req, content, htmlContent, read, outcome, supported, r) ==
    LET clipboardText == IF read /\ IsPresent(outcome) THEN Val(outcome) ELSE << >>
        rc == resolvedContent(content, clipboardText)
        rh == resolvedHtml(htmlContent, clipboardText)
    IN  [ response |-> Response("SNIPPET", content, htmlContent),
          read |-> read, readFailed |-> read /\ ~IsPresent(outcome),
          clipboardText |-> clipboardText,
          resolved |-> TRUE, resolvedContent |-> rc, resolvedHtml |-> rh,
          threw |-> r.threw, escaped |-> escapes(r.threw),
          typed |-> req.typed, start |-> r.start, removed |-> r.removed,
          outcome |-> IF Impossible(sf, req.typed) THEN "aborted" ELSE "replaced",
          suppressed |-> req.suppressed,
          path |-> IF sf.kind = "input" THEN "input" ELSE IF Truthy(rh) THEN "html" ELSE "plain",
          span |-> SpanAvailable(sf, req.typed),
          changed |-> r.sf # sf,
          tokens |-> CursorTokens(content, 1),
          htmlTokens |-> IF Truthy(htmlContent) THEN CursorTokens(Val(htmlContent), 1) ELSE 0,
          markers |-> Max(Count(rc, CURSOR_SENTINEL),
                          IF Truthy(rh) THEN MarkerSpans(Val(rh)) ELSE 0),
          left |-> MarkersIn(r.sf),
          caret |-> IF IsPresent(r.sf.pos) THEN Val(r.sf.pos) ELSE -1,
          expected |-> IF sf.kind = "input" /\ IsPresent(sf.pos)
                       THEN Val(sf.pos) - Len(req.typed) + IndexOf(rc, CURSOR_SENTINEL) ELSE -1,
          searched |-> r.searched, walked |-> r.walked, detached |-> r.detached,
          supported |-> supported ]

Complete(i, content, htmlContent, read, outcome, supported) ==
    LET clipboardText == IF read /\ IsPresent(outcome) THEN Val(outcome) ELSE << >>
        r == Replace(surface, requests[i].typed, resolvedContent(content, clipboardText),
                     resolvedHtml(htmlContent, clipboardText), supported)
    IN  /\ surface' = r.sf
        /\ ex' = Expansion(surface, requests[i], content, htmlContent, read, outcome,
                           supported, r)
        /\ requests' = RemoveNode(requests, i)

\* a callback that sends the message again when it is rejected
afterRejected_resend(reqs, i) == reqs

\* lines 329-332: the callback returns and nothing else is done for the
\* request
afterRejected(reqs, i) == RemoveNode(reqs, i)

\* the callback of sendMessage, lines 327-343, up to the await or to its end
ResponseArrives(i, resp, supported) ==
    /\ i \in 1 .. Len(requests)
    /\ requests[i].pc = "sent"
    /\ ~contextValid => resp.lastError
    /\ Rejected(resp) \/ needsClipboard(resp.content, resp.htmlContent) => supported
    /\ IF Rejected(resp)
       THEN /\ ex' = [ NoExpansion EXCEPT !.outcome = "rejected", !.response = resp,
                                       !.suppressed = requests[i].suppressed ]
            /\ requests' = afterRejected(requests, i)
            /\ surface' = surface
       ELSE IF needsClipboard(resp.content, resp.htmlContent)
       THEN /\ requests' = [ requests EXCEPT ![i] =
                               [ @ EXCEPT !.pc = "clipboard", !.content = resp.content,
                                          !.htmlContent = resp.htmlContent ] ]
            /\ ex' = [ NoExpansion EXCEPT !.outcome = "reading", !.response = resp,
                                       !.read = TRUE,
                                       !.suppressed = requests[i].suppressed ]
            /\ surface' = surface
       ELSE Complete(i, resp.content, resp.htmlContent, FALSE, Absent, supported)
    /\ UNCHANGED << bgvars, knownShortcuts, cachedVariables, loaded, contextValid,
                    dispatched, edits >>
    /\ kd' = NoEvent

\* the callback resumed after await navigator.clipboard.readText(), lines 338-355
ClipboardSettles(i, outcome, supported) ==
    /\ i \in 1 .. Len(requests)
    /\ requests[i].pc = "clipboard"
    /\ Complete(i, requests[i].content, requests[i].htmlContent, TRUE, outcome, supported)
    /\ UNCHANGED << bgvars, knownShortcuts, cachedVariables, loaded, contextValid,
                    dispatched, edits >>
    /\ kd' = NoEvent

\* ------------------------------------------------------------------------
\* The content script in one tab
\* ------------------------------------------------------------------------
ContentStart ==
    /\ knownShortcuts = { }
    /\ cachedVariables = << >>
    /\ loaded = FALSE
    /\ contextValid = TRUE
    /\ requests = << >>
    /\ dispatched = 0
    /\ edits = 0
    /\ kd = NoEvent
    /\ ex = NoExpansion

\* an empty text input, an input of a type without selection, an empty
\* contenteditable with the caret in it
InitialSurfaces ==
    { Input(<< >>, Some(0)), Input(<< >>, Absent), Editable(<< >>, Caret(0, 0)) }

\* ------------------------------------------------------------------------
\* The service worker and the popup, from a fresh install
\* ------------------------------------------------------------------------
\* storage after a login whose cache warming failed: token and user, no list
StorageLoggedIn == [ StorageInit EXCEPT !.token = Some("tok"), !.user = Some("user") ]

InitBackground ==
    /\ storage \in { StorageInit, StorageLoggedIn }
    /\ now = 1
    /\ ticks = 0
    /\ handlers = [ h \in Handlers |-> IdleHandler ]
    /\ status = [ resp |-> NoResponse, after401 |-> FALSE ]
    /\ popup = PopupClosed
    /\ seen401 = { }
    /\ ContentStart
    /\ surface = Input(<< >>, Some(0))

NextBackground ==
    \/ ReceiveGetStatus
    \/ \E h \in Handlers : ReceiveGetShortcuts(h)
    \/ \E h \in Handlers : ReceiveExpandShortcut(h)
    \/ \E h \in Handlers : GetStorageDone(h)
    \/ \E h \in Handlers : FetchShortcutsDone(h)
    \/ \E h \in Handlers : FetchSnippetDone(h)
    \/ \E h \in Handlers : ClearAuthDone(h)
    \/ \E h \in Handlers : SetStorageDone(h)
    \/ Tick

SpecBackground == InitBackground /\ [][NextBackground]_vars

\* every promise a handler awaits settles: chrome.storage calls back, and a
\* fetch resolves or rejects
FairBackground ==
    \A h \in Handlers :
        /\ WF_vars(GetStorageDone(h))
        /\ WF_vars(FetchShortcutsDone(h))
        /\ WF_vars(FetchSnippetDone(h))
        /\ WF_vars(ClearAuthDone(h))
        /\ WF_vars(SetStorageDone(h))

SpecBackgroundFair == SpecBackground /\ FairBackground

\* the popup with one message handler of the service worker
NextSession ==
    \/ ReceiveGetStatus
    \/ ReceiveGetShortcuts(1)
    \/ ReceiveExpandShortcut(1)
    \/ GetStorageDone(1)
    \/ FetchShortcutsDone(1)
    \/ FetchSnippetDone(1)
    \/ ClearAuthDone(1)
    \/ SetStorageDone(1)
    \/ PopupOpen
    \/ PopupClose
    \/ PopupLoginClick
    \/ PopupLoginDone
    \/ PopupSetAuthDone
    \/ PopupRefreshClick
    \/ PopupSignOutClick
    \/ PopupFetchShortcutsDone
    \/ PopupSetShortcutsDone
    \/ PopupFetchVariablesDone
    \/ PopupSetVariablesDone

InitSession == InitBackground /\ storage = StorageInit

SpecSession == InitSession /\ [][NextSession]_vars

\* storage when the tab loads: a fresh install, or a warmed cache
ContentStorages ==
    { StorageInit,
      [ StorageLoggedIn EXCEPT !.shortcuts = Some(<< "/sig" >>),
                               !.shortcutsLastFetched = Some(1) ] }

InitContent ==
    /\ storage \in ContentStorages
    /\ now = 1
    /\ ticks = 0
    /\ handlers = [ h \in Handlers |-> IdleHandler ]
    /\ status = [ resp |-> NoResponse, after401 |-> FALSE ]
    /\ popup = PopupClosed
    /\ seen401 = { }
    /\ ContentStart
    /\ surface \in InitialSurfaces

NextContent ==
    \/ InitStorageGet
    \/ ExtensionReloaded
    \/ \E new \in Typed : UserType(new)
    \/ \E to \in Moves : UserMoveCaret(to)
    \/ Keydown("Tab", "surface")
    \/ \E i \in 1 .. MaxRequests, resp \in Responses, supported \in BOOLEAN :
          ResponseArrives(i, resp, supported)
    \/ \E i \in 1 .. MaxRequests, outcome \in ClipboardOutcomes, supported \in BOOLEAN :
          ClipboardSettles(i, outcome, supported)

\* the tab from its load on, the user pressing Tab in the surface, with the
\* response callbacks
SpecContent == InitContent /\ [][NextContent]_vars

NextKeydown ==
    \/ InitStorageGet
    \/ \E l \in StoredShortcuts : ShortcutsChanged(Some(l))
    \/ ShortcutsChanged(Absent)
    \/ \E l \in StoredVariables : VariablesChanged(Some(l))
    \/ VariablesChanged(Absent)
    \/ ExtensionReloaded
    \/ \E new \in Typed : UserType(new)
    \/ \E to \in Moves : UserMoveCaret(to)
    \/ \E e \in Events : Keydown(e[1], e[2])

\* the keydown listener and the caches while other pages write the storage;
\* the requests it sends stay unanswered
SpecKeydown == InitContent /\ [][NextKeydown]_vars

\* ------------------------------------------------------------------------
\* The resolution of variables in one expansion
\* ------------------------------------------------------------------------
MaxVars == 2

\* variables the server holds: name for the user and for the workspace, a
\* static variable named like a dynamic one, a value with the characters
\* escapeHtml escapes
VariableIds == { "name", "name/ws", "year", "amp" }

RECURSIVE VariableLists(_)
\* the lists of at most n different variables, in every order
VariableLists(n) ==
    IF n = 0 THEN { << >> }
    ELSE LET shorter == VariableLists(n - 1)
         IN  shorter \cup
             { Append(p[1], p[2]) :
                 p \in { q \in shorter \X VariableIds :
                           Len(q[1]) = n - 1 /\ q[2] \notin Range(q[1]) } }

Token(name) == << "{", "{" >> \o name \o << "}", "}" >>

\* bodies of one token, the same in the plain and in the HTML version; a
\* body with {{clipboard}} in its HTML version only; a body without a token
ResolveSnippets ==
    { [ content |-> Token(n), htmlContent |-> Some(Token(n)) ] :
        n \in { << "n", "a", "m", "e" >>, << "y", "e", "a", "r" >>, << "a", "m", "p" >>,
                << "c", "l", "i", "p", "b", "o", "a", "r", "d" >>,
                << "c", "u", "r", "s", "o", "r" >> } }
    \cup { [ content |-> << "x" >>,
             htmlContent |-> Some(Token(<< "c", "l", "i", "p", "b", "o", "a", "r", "d" >>)) ],
           [ content |-> << "h", "i" >>, htmlContent |-> Absent ] }

\* the tab after its load, //sig typed in an input or in a contenteditable
InitResolve ==
    /\ \E ids \in VariableLists(MaxVars) :
          /\ storage = [ StorageLoggedIn EXCEPT !.shortcuts = Some(<< "/sig" >>),
                                                !.shortcutsLastFetched = Some(1),
                                                !.variables = Some(ids) ]
          /\ cachedVariables = VariableRecords(ids)
    /\ now = 1
    /\ ticks = 0
    /\ handlers = [ h \in Handlers |-> IdleHandler ]
    /\ status = [ resp |-> NoResponse, after401 |-> FALSE ]
    /\ popup = PopupClosed
    /\ seen401 = { }
    /\ knownShortcuts = { "/sig" }
    /\ loaded = TRUE
    /\ contextValid = TRUE
    /\ requests = << >>
    /\ dispatched = 0
    /\ edits = 0
    /\ kd = NoEvent
    /\ ex = NoExpansion
    /\ surface \in { Input(<< "/", "/", "s", "i", "g" >>, Some(5)),
                     Editable(<< Text(<< "/", "/", "s", "i", "g" >>) >>, Caret(1, 5)) }

\* the responses that carry them
ResolveResponses ==
    { Response("SNIPPET", sn.content, sn.htmlContent) : sn \in ResolveSnippets }

NextResolve ==
    \/ Keydown("Tab", "surface")
    \/ \E i \in 1 .. MaxRequests, resp \in ResolveResponses :
          ResponseArrives(i, resp, TRUE)
    \/ \E i \in 1 .. MaxRequests, outcome \in ClipboardOutcomes :
          ClipboardSettles(i, outcome, TRUE)

\* one expansion with the variables of the cache, from Tab to the replacement
SpecResolve == InitResolve /\ [][NextResolve]_vars

\* ------------------------------------------------------------------------
\* Properties of the service worker and the popup
\* ------------------------------------------------------------------------
NoShortcutsStored(st) ==
    ~IsPresent(st.shortcuts) \/ Val(st.shortcuts) = << >>

SessionInvalidated(st) ==
    ~IsPresent(st.token) /\ ~IsPresent(st.user) /\ NoShortcutsStored(st)

\* C6: once any fetch of the extension (service worker: shortcut list, single
\* snippet; popup: shortcut list, variables) was answered 401 and that answer
\* was handled, and until a new login, local storage holds no token, no user
\* and no cached shortcuts.
C6_Any401InvalidatesSession ==
    seen401 /= { } => SessionInvalidated(storage)

Done(h) == handlers[h].pc = "done"

\* C7 as claimed: a handler that met a 401 answers NOT_LOGGED_IN, whatever the
\* message was.
C7_401AnswersNotLoggedIn ==
    \A h \in Handlers :
        Done(h) /\ handlers[h].saw401 => handlers[h].resp.kind = "NOT_LOGGED_IN"

\* C7 amended: a handler that met a 401 answers NOT_LOGGED_IN to
\* EXPAND_SHORTCUT and {shortcuts: []} to GET_SHORTCUTS; it never answers with
\* a non-empty list or a snippet.
C7_401AnswersNotLoggedInOrEmpty ==
    \A h \in Handlers :
        Done(h) /\ handlers[h].saw401 =>
            /\ handlers[h].type = "EXPAND_SHORTCUT" =>
                  handlers[h].resp.kind = "NOT_LOGGED_IN"
            /\ handlers[h].type = "GET_SHORTCUTS" =>
                  handlers[h].resp = ShortcutsResponse(<< >>)

\* both messages answered after a 401
C7_Witness ==
    \E h, g \in Handlers :
        /\ Done(h) /\ handlers[h].saw401 /\ handlers[h].type = "EXPAND_SHORTCUT"
        /\ Done(g) /\ handlers[g].saw401 /\ handlers[g].type = "GET_SHORTCUTS"

\* C8: a GET_STATUS that follows a handled 401 of the shortcut-list fetch (no
\* login since) reports loggedIn: false and shortcutCount: 0.
C8_StatusAfter401 ==
    status.after401 =>
        status.resp.loggedIn = FALSE /\ status.resp.shortcutCount = 0

CachePopulated(st) == IsPresent(st.shortcuts) /\ TruthyNum(st.shortcutsLastFetched)
Age(st, t) == t - Val(st.shortcutsLastFetched)

\* the step of handler h in which getShortcuts reads storage and decides
Decides(h) == handlers[h].pc = "get1" /\ handlers'[h].pc /= "get1"

AnsweredFromCache(h) ==
    /\ handlers'[h].pc = "done" /\ ~handlers'[h].fetched
    /\ handlers'[h].resp = ShortcutsResponse(Val(storage.shortcuts))
    /\ storage' = storage

\* C9 as claimed: with the cache populated at t0, a request at t0+W-1 or
\* earlier is answered from the cache without a network call; a request at
\* t0+W+1 or later refetches, and the refetch ends in the list being stored
\* under the request's timestamp and returned.
C9_TtlWindow ==
    [][ \A h \in Handlers :
          /\ Decides(h) /\ CachePopulated(storage) =>
                /\ Age(storage, now) <= CACHE_TTL_MS - 1 => AnsweredFromCache(h)
                /\ Age(storage, now) >= CACHE_TTL_MS + 1 => handlers'[h].pc = "fetchList"
          /\ ( /\ handlers[h].pc = "fetchList" /\ handlers'[h].pc /= "fetchList"
               /\ CachePopulated(storage)
               /\ Age(storage, handlers[h].now) >= CACHE_TTL_MS + 1 ) =>
                handlers'[h].pc = "set"
          /\ handlers[h].pc = "set" /\ handlers'[h].pc = "done" =>
                /\ storage' = setShortcuts(storage, handlers[h].list, handlers[h].now)
                /\ handlers'[h].resp = ShortcutsResponse(handlers[h].list)
      ]_bgvars

\* C9 amended: with a token stored and the cache populated at t0, a request
\* at t0+W or earlier is answered from the cache without a network call and
\* without a write; a request at t0+W+1 or later starts a refetch.  A refetch
\* answered 200 stores the fetched list under the request's timestamp and
\* returns it; one answered 401 clears the session, stores and returns the
\* empty list; any other outcome stores nothing and returns the empty list.
\* Without a token no request fetches.
C9_TtlWindowLoggedIn ==
    [][ \A h \in Handlers :
          /\ Decides(h) /\ IsPresent(storage.token) /\ CachePopulated(storage) =>
                /\ Age(storage, now) <= CACHE_TTL_MS => AnsweredFromCache(h)
                /\ Age(storage, now) >= CACHE_TTL_MS + 1 =>
                      /\ handlers'[h].pc = "fetchList" /\ handlers'[h].fetched
                      /\ handlers'[h].now = now
          /\ Decides(h) /\ ~IsPresent(storage.token) =>
                /\ handlers'[h].pc = "done" /\ ~handlers'[h].fetched
                /\ handlers'[h].resp = ShortcutsResponse(<< >>)
          /\ handlers[h].pc = "fetchList" /\ handlers'[h].pc = "set" =>
                handlers'[h].list \in { filterNonNull(d) : d \in ServerLists }
          /\ handlers[h].pc = "fetchList" /\ handlers'[h].pc = "done" =>
                storage' = storage /\ handlers'[h].resp = ShortcutsResponse(<< >>)
          /\ handlers[h].pc = "clear" /\ handlers'[h].pc = "set" =>
                storage' = clearAuth(storage) /\ handlers'[h].list = << >>
          /\ handlers[h].pc = "set" /\ handlers'[h].pc = "done" =>
                /\ storage' = setShortcuts(storage, handlers[h].list, handlers[h].now)
                /\ handlers'[h].resp = ShortcutsResponse(handlers[h].list)
      ]_bgvars

\* a refetch at t0+W+1 has brought a list and is about to store it
C9_Witness ==
    \E h \in Handlers :
        /\ handlers[h].pc = "set" /\ ~handlers[h].saw401
        /\ CachePopulated(storage) /\ IsPresent(storage.token)
        /\ handlers[h].now = Val(storage.shortcutsLastFetched) + CACHE_TTL_MS + 1
        /\ handlers[h].list /= Val(storage.shortcuts)

\* a request at t0+W-1 was answered from the cache
C9_WitnessCached ==
    \E h \in Handlers :
        /\ Done(h) /\ ~handlers[h].fetched /\ handlers[h].resp.shortcuts /= << >>
        /\ CachePopulated(storage)
        /\ handlers[h].now = Val(storage.shortcutsLastFetched) + CACHE_TTL_MS - 1

\* handler h of GET_SHORTCUTS stands between its staleness test and the end
\* of its write of the refetched list
InWindow(h) ==
    handlers[h].type = "GET_SHORTCUTS" /\ handlers[h].pc \in { "fetchList", "clear", "set" }

\* handler g takes a step that reads or writes the stored shortcuts
TouchesCache(g) ==
    handlers[g].pc \in { "get1", "clear", "set" } /\ handlers'[g] /= handlers[g]

\* C10: while a handler stands between its staleness test and its write of
\* the refetched list, no other handler reads or writes the stored shortcuts
\* and shortcutsLastFetched.
C10_NoRaceOnCache ==
    [][ \A h, g \in Handlers :
          h /= g /\ InWindow(h) /\ handlers'[h] = handlers[h] => ~TouchesCache(g)
      ]_bgvars

\* ------------------------------------------------------------------------
\* Properties of the content script
\* ------------------------------------------------------------------------
\* a Tab keydown in the editing surface
TabInSurface(e) == e.key = "Tab" /\ e.target = "surface"
Suppressed(e) == e.defaultPrevented /\ e.propagationStopped
LeftAlone(e) == ~e.defaultPrevented /\ ~e.propagationStopped

\* C1, as stated: at a Tab keydown with text before the cursor S, if S ends
\* with //T and /T is in the Shortcut Cache an EXPAND_SHORTCUT request is
\* sent; if S ends with //T and /T is not in the cache, no request is sent
\* and neither preventDefault nor stopPropagation is called.
C1_TriggerInCacheSends ==
    TabInSurface(kd) =>
        /\ kd.inCache => kd.sent
        /\ kd.notInCache => ~kd.sent /\ LeftAlone(kd)

\* C1, amended: the request is sent, for the key /T, and Tab is suppressed,
\* when S ends with //T, /T is in the cache and the extension context is
\* valid; with /T in the cache and the context stale, and with /T not in
\* the cache, no request is sent and Tab is left alone.
C1_TriggerInCacheAndContextValidSends ==
    TabInSurface(kd) =>
        /\ kd.inCache /\ kd.valid => kd.sent /\ Suppressed(kd) /\ kd.shortcut \in kd.keys
        /\ kd.inCache /\ ~kd.valid => ~kd.sent /\ LeftAlone(kd)
        /\ kd.notInCache => ~kd.sent /\ LeftAlone(kd)

\* C1, witness: a Tab keydown after //sig with /sig cached sent its request
C1_Witness ==
    /\ TabInSurface(kd) /\ kd.inCache /\ kd.valid /\ kd.sent
    /\ requests # << >> /\ requests[Len(requests)].lookup = kd.shortcut

\* the response callback that returns in this step found the expansion failed
\* or impossible: a rejected response, or no usable span at the caret
FailedExpansion(e) == e.outcome \in { "rejected", "aborted" }

\* C2, as stated: when the expansion fails or is impossible the editing
\* surface is left unchanged and Tab has not been suppressed for the keydown
\* that asked for it.
C2_FailureLeavesSurfaceAndTab ==
    [][ FailedExpansion(ex') => surface' = surface /\ ~ex'.suppressed ]_vars

\* C2, amended: a failure found by the response callback (rejected response,
\* snippet not found, caret not in a text node, trigger span not available
\* in the contenteditable) leaves the editing surface unchanged, with Tab
\* already suppressed for its keydown; a failure found at the keydown (no
\* trigger before the cursor, trigger not in the cache, stale context) leaves
\* the surface unchanged and Tab alone.
C2_FailureLeavesSurface ==
    [][ /\ FailedExpansion(ex') => surface' = surface /\ ex'.suppressed
        /\ TabInSurface(kd') /\ (~kd'.inCache \/ ~kd'.valid) =>
               surface' = surface /\ ~kd'.sent /\ LeftAlone(kd')
      ]_vars

\* C2, witness: a response callback found the caret of the contenteditable
\* without a usable span and returned
C2_Witness ==
    ex.outcome = "aborted" /\ ex.suppressed /\ surface.kind = "editable"

\* C3: the resolved content of an expansion holds at most one cursor marker,
\* and when the expansion completes no marker remains in the surface.
C3_AtMostOneMarkerNoneLeft ==
    ex.outcome = "replaced" => ex.markers <= 1 /\ ex.left = 0

\* C4: in a plain input, with one {{cursor}} token in the content, the value
\* after the expansion holds no sentinel and the caret is at the offset the
\* sentinel had in the field.
C4_InputRoundTrip ==
    ex.outcome = "replaced" /\ ex.path = "input" /\ ex.span /\ ex.tokens = 1 =>
        ex.left = 0 /\ ex.caret = ex.expected

\* C5: when the snippet holds no {{cursor}} token, no sentinel is searched
\* in the input, no text node is rewritten by the tree walk and no element
\* is found by the marker id and detached.
C5_NoTokenNoMachinery ==
    ex.outcome = "replaced" /\ ex.tokens = 0 /\ ex.htmlTokens = 0 =>
        ~ex.searched /\ ~ex.walked /\ ~ex.detached

\* ------------------------------------------------------------------------
\* Properties of the caches
\* ------------------------------------------------------------------------
\* the lists the storage holds under 'shortcuts' at some time: the one of
\* the warmed cache and those other pages write
WrittenShortcuts == StoredShortcuts \cup { << "/sig" >> }
WrittenVariables == StoredVariables

\* C11: each cache is empty or holds exactly the entries of one list that
\* was written to the storage, never entries of two lists
C11_CachesAreSnapshots ==
    /\ knownShortcuts = { } \/ \E l \in WrittenShortcuts : knownShortcuts = Range(l)
    /\ cachedVariables = << >>
          \/ \E l \in WrittenVariables : cachedVariables = VariableRecords(l)

\* C11: both caches were replaced by the listener after the tab had loaded
\* the first lists, and the storage has lost its list since
C11_Witness ==
    /\ loaded
    /\ knownShortcuts = { "/hi", "/bye" }
    /\ cachedVariables = VariableRecords(<< "team" >>)
    /\ ~IsPresent(storage.shortcuts)

\* ------------------------------------------------------------------------
\* Properties of the Tab handler and the response callback
\* ------------------------------------------------------------------------
\* the four conditions of the guard, on the event as the page saw it
GuardHolds(e) ==
    /\ e.key = "Tab"
    /\ e.target = "surface"
    /\ e.inCache
    /\ e.valid

\* C12: the keydown listener calls preventDefault or stopPropagation, or
\* sends a request, only if the key is Tab, the target is an input, textarea
\* or contenteditable, the text before the cursor ends with //token whose
\* key is cached, and the extension context is valid; in every other case
\* it returns with the event untouched and nothing sent
C12_SuppressOnlyUnderGuard ==
    kd.key # "" /\ ~GuardHolds(kd) =>
        ~kd.defaultPrevented /\ ~kd.propagationStopped /\ ~kd.sent

\* C12: Tab after a cached trigger in the surface, the context gone: the
\* listener returned without touching the event
C12_Witness ==
    /\ kd.key = "Tab" /\ kd.target = "surface"
    /\ kd.inCache /\ ~kd.valid
    /\ ~kd.defaultPrevented /\ ~kd.sent

\* C13: a response callback that ends, or resumes after its clipboard read,
\* when the extension context has become invalid since the guard passed,
\* leaves the editing surface as it was
C13_StaleContextNoOp ==
    ex.outcome # "none" /\ ~contextValid => ~ex.changed

\* the callback got a transport error, no response, a response of another
\* type than SNIPPET, or a snippet without content
Unusable(resp) ==
    \/ resp.lastError
    \/ ~resp.defined
    \/ resp.type # "SNIPPET"
    \/ resp.content = << >>

ReadsPending(reqs) == Cardinality({ i \in 1 .. Len(reqs) : reqs[i].pc = "clipboard" })

\* C14: a callback called with a transport error, with no response, with a
\* response whose type is not SNIPPET or with a response without content
\* returns at once: it starts no clipboard read, resolves no variable and
\* leaves the editing surface as it was
C14_UnusableResponseReturns ==
    [][ ex'.outcome # "none" /\ Unusable(ex'.response) =>
            /\ surface' = surface
            /\ ~ex'.read /\ ReadsPending(requests') <= ReadsPending(requests)
            /\ ~ex'.resolved
            /\ Len(requests') < Len(requests) ]_vars

\* C14: the callback returned on a SNIPPET response with empty content
C14_Witness ==
    /\ ex.outcome = "rejected"
    /\ ~ex.response.lastError /\ ex.response.defined
    /\ ex.response.type = "SNIPPET" /\ ex.response.content = << >>
    /\ surface.kind = "input" /\ surface.value # << >>

OtherFailures == { "404", "500", "throw" }

C17_ShortcutsAlwaysAList ==
    \A h \in Handlers :
        Done(h) /\ handlers[h].type = "GET_SHORTCUTS" =>
            /\ handlers[h].resp.kind = "shortcuts"
            /\ handlers[h].resp = ShortcutsResponse(handlers[h].resp.shortcuts)
            /\ ~handlers[h].token => handlers[h].resp.shortcuts = << >>
            /\ handlers[h].outcome \in OtherFailures \cup { "401" } =>
                  handlers[h].resp.shortcuts = << >>

\* C17: a refetch of a stale, non-empty cached list failed with a 500 and
\* the caller got the empty list
C17_Witness ==
    /\ IsPresent(storage.shortcuts) /\ Val(storage.shortcuts) # << >>
    /\ \E h \in Handlers :
          /\ Done(h) /\ handlers[h].type = "GET_SHORTCUTS"
          /\ handlers[h].outcome = "500"

\* ------------------------------------------------------------------------
\* Properties of the resolution of variables
\* ------------------------------------------------------------------------
NameToken == << "n", "a", "m", "e" >>
YearToken == << "y", "e", "a", "r" >>
AmpToken == << "a", "m", "p" >>
ClipboardToken == << "c", "l", "i", "p", "b", "o", "a", "r", "d" >>
CursorToken == << "c", "u", "r", "s", "o", "r" >>

\* the entries of a name in a scope
EntriesOf(list, n, sc) ==
    { i \in 1 .. Len(list) : list[i].name = n /\ list[i].scope = sc }

\* what {{n}} stands for: the dynamic value if n is a dynamic name, else the
\* user's value, else the workspace's, else the token itself
Expected(list, n) ==
    IF n \in DynamicNames THEN DynamicValue(n)
    ELSE IF EntriesOf(list, n, "USER") # { }
    THEN list[CHOOSE i \in EntriesOf(list, n, "USER") : TRUE].value
    ELSE IF EntriesOf(list, n, "WORKSPACE") # { }
    THEN list[CHOOSE i \in EntriesOf(list, n, "WORKSPACE") : TRUE].value
    ELSE Token(n)

\* C18: a name defined in several scopes resolves to the dynamic value over
\* the user's and the workspace's, and to the user's over the workspace's,
\* in whatever order the cache lists its entries
C18_Precedence ==
    ex.resolved =>
        \A n \in { NameToken, YearToken, AmpToken } :
            ex.response.content = Token(n) =>
                ex.resolvedContent = Expected(cachedVariables, n)

\* C18: {{name}} resolved to the user's value with the user's entry listed
\* before the workspace's
C18_Witness ==
    /\ ex.resolved
    /\ ex.response.content = Token(NameToken)
    /\ cachedVariables = VariableRecords(<< "name", "name/ws" >>)
    /\ ex.resolvedContent = << "J", "o" >>

\* C18: {{year}} resolved to the dynamic value with a user variable of that
\* name in the cache
C18_WitnessDynamic ==
    /\ ex.resolved
    /\ ex.response.content = Token(YearToken)
    /\ cachedVariables = VariableRecords(<< "year" >>)
    /\ ex.resolvedContent = DynamicValue(YearToken)

Entities ==
    { << << "&", "a", "m", "p", ";" >>, "&" >>, << << "&", "l", "t", ";" >>, "<" >>,
      << << "&", "g", "t", ";" >>, ">" >>, << << "&", "q", "u", "o", "t", ";" >>, "\"" >> }

\* no <, > or " in the text, and every & starts one of the four entities
NothingRaw(str) ==
    \A i \in 1 .. Len(str) :
        /\ str[i] \notin { "<", ">", "\"" }
        /\ str[i] = "&" => \E en \in Entities : OccursAt(str, en[1], i)

RECURSIVE Unescape(_)
\* the text an HTML parser reads from character data
Unescape(str) ==
    IF str = << >> THEN << >>
    ELSE IF \E en \in Entities : OccursAt(str, en[1], 1)
    THEN LET en == CHOOSE x \in Entities : OccursAt(str, x[1], 1)
         IN  << en[2] >> \o Unescape(SubSeq(str, Len(en[1]) + 1, Len(str)))
    ELSE << Head(str) >> \o Unescape(Tail(str))

\* the text is the value with &, <, > and " written as entities
IsEscaped(str, value) == NothingRaw(str) /\ Unescape(str) = value

\* C19: in the HTML version of a body the value put in place of a static or
\* dynamic variable or of {{clipboard}} has its &, <, > and " escaped; in
\* the plain version the value is put in as it is; {{cursor}} in the HTML
\* version becomes the marker element itself, not escaped
C19_EscapedInHtmlOnly ==
    ex.resolved =>
        /\ \A n \in { NameToken, YearToken, AmpToken } :
              /\ ex.response.content = Token(n) =>
                    ex.resolvedContent = Expected(cachedVariables, n)
              /\ ex.response.htmlContent = Some(Token(n)) =>
                    /\ IsPresent(ex.resolvedHtml)
                    /\ IsEscaped(Val(ex.resolvedHtml), Expected(cachedVariables, n))
        /\ ex.response.content = Token(ClipboardToken) =>
              ex.resolvedContent = ex.clipboardText
        /\ ex.response.htmlContent = Some(Token(ClipboardToken)) =>
              /\ IsPresent(ex.resolvedHtml)
              /\ IsEscaped(Val(ex.resolvedHtml), ex.clipboardText)
        /\ ex.response.htmlContent = Some(Token(CursorToken)) =>
              ex.resolvedHtml = Some(CursorSpan)

\* C19: {{amp}} was resolved in both versions of a body, for a
\* contenteditable, with the value R&D<"> in the cache
C19_Witness ==
    /\ ex.resolved /\ ex.path = "html"
    /\ ex.response.htmlContent = Some(Token(AmpToken))
    /\ ex.resolvedContent = << "R", "&", "D", "<", "\"", ">" >>
    /\ ex.resolvedHtml # Some(ex.resolvedContent)

\* C19: the clipboard text a<&"> was put into the HTML version of a body
C19_WitnessClipboard ==
    /\ ex.resolved /\ ex.path = "html"
    /\ ex.response.htmlContent = Some(Token(ClipboardToken))
    /\ ex.clipboardText = << "a", "<", "&", "\"", ">" >>

\* the token is in the text, character by character
HasClipboardToken(text) ==
    \E i \in 1 .. Len(text) :
        /\ i + Len(Token(ClipboardToken)) - 1 <= Len(text)
        /\ \A k \in 1 .. Len(Token(ClipboardToken)) :
              text[i + k - 1] = Token(ClipboardToken)[k]

\* C20: the clipboard is read only for a body with {{clipboard}} in its
\* plain or in its HTML version; when the read fails the token gives the
\* empty string and the trigger, if it is still before the cursor, is
\* replaced all the same
C20_ClipboardOnlyOnToken ==
    [][ /\ ex'.read =>
              \/ HasClipboardToken(ex'.response.content)
              \/ /\ IsPresent(ex'.response.htmlContent)
                 /\ HasClipboardToken(Val(ex'.response.htmlContent))
        /\ ReadsPending(requests') > 0 => ex'.read \/ ReadsPending(requests) > 0
        /\ ex'.readFailed =>
              /\ ex'.resolved /\ ~ex'.threw
              /\ ex'.clipboardText = << >>
              /\ ex'.span => ex'.outcome = "replaced" /\ surface' # surface
              /\ ex'.response.content = Token(ClipboardToken) =>
                    ex'.resolvedContent = << >>
              /\ ex'.response.htmlContent = Some(Token(ClipboardToken)) =>
                    ex'.resolvedHtml = Some(<< >>) ]_vars

\* C20: the read was made for a body with the token in its HTML version
\* only, it failed, and the plain version replaced the trigger
C20_Witness ==
    /\ ex.readFailed /\ ex.span /\ ex.outcome = "replaced"
    /\ ex.response.content = << "x" >>
    /\ surface.kind = "input" /\ surface.value = << "x" >>

\* the names the cache holds a value for
CachedNames == { cachedVariables[i].name : i \in 1 .. Len(cachedVariables) }

\* the name is not cursor, not clipboard, not dynamic and not in the cache
Unknown(n) ==
    /\ n \notin { CursorToken, ClipboardToken }
    /\ n \notin DynamicNames
    /\ n \notin CachedNames

\* C21: a token whose name is not cursor, not clipboard, not a dynamic
\* variable and not in the Variable Cache is left in the output as it was
\* written, in the plain and in the HTML version of the body
C21_UnknownTokenKept ==
    ex.resolved =>
        \A n \in { NameToken, YearToken, AmpToken } :
            Unknown(n) =>
                /\ ex.response.content = Token(n) => ex.resolvedContent = Token(n)
                /\ ex.response.htmlContent = Some(Token(n)) =>
                      ex.resolvedHtml = Some(Token(n))

\* C21: {{amp}} was resolved for a contenteditable with a cache that holds
\* only name, and both versions still read {{amp}}
C21_Witness ==
    /\ ex.resolved /\ ex.path = "html"
    /\ cachedVariables = VariableRecords(<< "name" >>)
    /\ ex.response.content = Token(AmpToken)
    /\ ex.resolvedContent = Token(AmpToken)
    /\ ex.resolvedHtml = Some(Token(AmpToken))

\* the callback ended on a transport error, a missing response, NOT_FOUND,
\* NOT_LOGGED_IN, an empty snippet or an exception
FailureOutcome(e) == e.outcome = "rejected" \/ e.threw

\* C22: a step sends at most one EXPAND_SHORTCUT request, and only a Tab
\* keydown sends one; a callback that ends on a failure sends nothing and
\* leaves nothing of its request behind; a Tab keydown that passes the guard
\* sends its request whatever is still in flight
C22_OneRequestPerTabNoRetry ==
    [][ /\ dispatched' <= dispatched + 1
        /\ Len(requests') <= Len(requests) + 1
        /\ dispatched' = dispatched + 1 <=> kd'.sent
        /\ kd'.sent =>
              /\ kd'.key = "Tab"
              /\ Len(requests') = Len(requests) + 1
              /\ requests'[Len(requests')].pc = "sent"
              /\ SubSeq(requests', 1, Len(requests)) = requests
        /\ kd'.key = "Tab" /\ GuardHolds(kd') => kd'.sent
        /\ FailureOutcome(ex') =>
              /\ dispatched' = dispatched
              /\ Len(requests') = Len(requests) - 1 ]_vars

\* C22: a second Tab was pressed before the first response and both
\* requests are in flight
C22_Witness ==
    /\ kd.sent
    /\ Len(requests) = 2
    /\ requests[1].pc = "sent" /\ requests[2].pc = "sent"
    /\ dispatched = 2

\* C22: a request ended on a failure after another had been sent, and the
\* other one is still in flight, alone
C22_WitnessFailure ==
    /\ FailureOutcome(ex)
    /\ dispatched = 2
    /\ Len(requests) = 1

\* C25: what a plain-input expansion removes is the typed trigger matched
\* at the keydown, and the start of the span it computes is not negative,
\* whatever the user or another expansion did to the input in between
C25_RemovedSpanIsTrigger ==
    ex.path = "input" /\ ex.outcome = "replaced" =>
        /\ ex.start >= 0
        /\ ex.removed = ex.typed

\* C23: the request a Tab keydown sends carries the typed form //T and the
\* lookup form /T of the token T before the cursor, the lookup form is the
\* key found in the Shortcut Cache and sent in EXPAND_SHORTCUT, and a
\* plain-input expansion removes as many characters as the typed form has,
\* one more than the lookup key
C23_TypedAndLookupForms ==
    /\ kd.sent =>
          LET req == requests[Len(requests)]
          IN  /\ Len(req.typed) = Len(req.lookup) + 1
              /\ req.typed = << "/" >> \o req.lookup
              /\ Head(req.lookup) = "/" /\ IsToken(Tail(req.lookup))
              /\ req.lookup \in kd.keys
              /\ kd.shortcut = req.lookup
              /\ has(knownShortcuts, req.lookup)
    /\ ex.path = "input" /\ ex.outcome = "replaced" =>
          Len(ex.removed) = Len(ex.typed)

\* there is no selection range
NoRange(sf) == ~IsPresent(sf.sel)
\* the container of the caret is not a text node
NotInText(sf) ==
    /\ IsPresent(sf.sel)
    /\ Val(sf.sel).node = 0 \/ sf.nodes[Val(sf.sel).node].t # "text"
\* the text before the caret in its node is shorter than the typed trigger
TooShort(sf, typed) ==
    /\ IsPresent(sf.sel) /\ Val(sf.sel).node # 0
    /\ sf.nodes[Val(sf.sel).node].t = "text"
    /\ Val(sf.sel).off < Len(typed)

\* C24: replaceInEditable, called when there is no selection range, when
\* the caret's container is not a text node or when the text before the
\* caret in that node is shorter than the typed trigger, leaves the nodes
\* of the document and the selection as they were
C24_EditableAbortsUnchanged ==
    [][ /\ ex'.resolved
        /\ surface.kind = "editable"
        /\ NoRange(surface) \/ NotInText(surface) \/ TooShort(surface, ex'.typed)
        => /\ surface'.nodes = surface.nodes
           /\ surface'.sel = surface.sel
           /\ ~ex'.walked /\ ~ex'.detached ]_vars

\* C24: a response came for a contenteditable whose caret stands in a text
\* node after fewer characters than the trigger has
C24_Witness ==
    /\ ex.resolved /\ ex.path # "input" /\ ex.outcome = "aborted"
    /\ TooShort(surface, ex.typed)
    /\ surface.nodes # << >>

\* C24: a response came for a contenteditable after the selection had left
\* it
C24_WitnessNoRange ==
    /\ ex.resolved /\ ex.path # "input" /\ ex.outcome = "aborted"
    /\ NoRange(surface)

\* ------------------------------------------------------------------------
\* Properties of the local storage
\* ------------------------------------------------------------------------
\* C26: whenever no token is stored, the stored shortcut list is absent or
\* empty
C26_NoTokenNoShortcuts ==
    ~IsPresent(storage.token) =>
        ~IsPresent(storage.shortcuts) \/ Val(storage.shortcuts) = << >>

\* C27: when the stored shortcuts are removed from the storage the Shortcut
\* Cache of the content script becomes empty, and with no list stored a Tab
\* keydown is not suppressed
C27_RemovalEmptiesCache ==
    [][ /\ IsPresent(storage.shortcuts) /\ ~IsPresent(storage'.shortcuts) =>
              knownShortcuts' = { }
        /\ ~IsPresent(storage'.shortcuts) /\ kd'.key = "Tab" =>
              ~kd'.defaultPrevented /\ ~kd'.sent ]_vars

\* sendResponse has been called for the message of handler h
Answered(h) == handlers[h].resp.kind # "none"

\* C28: every GET_SHORTCUTS and EXPAND_SHORTCUT message received is eventually
\* answered, a GET_STATUS is answered when it is received, and sendResponse
\* is called once for a message: no answer before the handler ends, and the
\* answer given is never replaced
C28_AnsweredExactlyOnce ==
    /\ \A h \in Handlers : (handlers[h].type # "none") ~> Answered(h)
    /\ [](\A h \in Handlers : Answered(h) <=> handlers[h].pc = "done")
    /\ [][ /\ \A h \in Handlers : Answered(h) => handlers'[h] = handlers[h]
           /\ status' # status => status'.resp.kind = "status" ]_vars

\* handlers answered after a 401, after another failure, and with no token
C28_Witness ==
    \E h, k \in Handlers :
        /\ Answered(h) /\ handlers[h].outcome = "401"
        /\ Answered(k) /\ (handlers[k].outcome \in OtherFailures \/ ~handlers[k].token)
        /\ status.resp.kind = "status"

\* the shortcut-list fetch of handler h settled with a failure other than 401
ListFetchFailed(rec) ==
    rec.type = "GET_SHORTCUTS" /\ rec.outcome \in OtherFailures

\* C29: the step at which the shortcut-list fetch of a handler fails with a
\* status other than 401, or throws, leaves the storage as it was and ends
\* the handler, which writes nothing afterwards
C29_FailedFetchLeavesStorage ==
    [][ \A h \in Handlers :
          /\ ~ListFetchFailed(handlers[h]) /\ ListFetchFailed(handlers'[h]) =>
                storage' = storage /\ handlers'[h].pc = "done"
          /\ ListFetchFailed(handlers[h]) => handlers'[h] = handlers[h] ]_vars

\* a refresh of a stale list failed and the stale list is still stored
C29_Witness ==
    \E h \in Handlers :
        /\ ListFetchFailed(handlers[h])
        /\ handlers[h].pc = "done"
        /\ IsPresent(storage.token)
        /\ IsPresent(storage.shortcuts) /\ Val(storage.shortcuts) # << >>
        /\ IsPresent(storage.shortcutsLastFetched)

\* C30: the step that ends a session (the stored token is removed, by the
\* popup's sign-out or by a 401 handled in the service worker) leaves no
\* variables in the storage and keeps the configured apiUrl
C30_SessionEndClearsVariables ==
    [][ IsPresent(storage.token) /\ ~IsPresent(storage'.token) =>
            /\ ~IsPresent(storage'.variables)
            /\ storage'.apiUrl = storage.apiUrl ]_vars

=============================================================================
